---- MODULE Spec2Model ----
(***************************************************************************)
(* VibeTracer: the Call Recorder (vibetracer/trace/tracer.py) writing to   *)
(* the Trace Store (vibetracer/database/models.py).                        *)
(*                                                                         *)
(* The store is three tables whose primary keys are autoincremented, so a  *)
(* table is a sequence and a row's id is its index.  Every thread owns a   *)
(* thread-local stack of Call ids and a stack of frames: its unwrapped     *)
(* top-level code first, then the invocations of `wrapper` it is inside    *)
(* of.  One action is one step of the decorator, of the wrapper or of the  *)
(* traced program: at most one statement sent to the store, or one change  *)
(* of a thread's stack.                                                    *)
(***************************************************************************)
EXTENDS Integers, Sequences, FiniteSets, TLC

VARIABLES
    functions,   \* table Function: row i is [key]
    calls,       \* table Call
    arguments,   \* table Argument
    stack,       \* _call_stack.stack of every thread
    frames,      \* per thread: top-level code, then the wrapper invocations in progress
    reg,         \* per thread: the decorator application in progress
    wrappers,    \* the wrappers the decorator has returned: [key, func_id]
    clock,       \* time.time()
    store_up,    \* whether the engine's database accepts statements
    updates,     \* per Call id: how many UPDATEs of the row were committed
    scenario,    \* the program that drives the recorder: who runs it, where it is, what it holds
    column,      \* a text column of the store written through the ORM listeners
    request,     \* the script run or import the finder and the loader are serving
    report       \* the run of Dumper.dump_llm_text: what it has loaded, the texts it returned

\* The state of the recorder and of the store it writes to.
recorder == <<functions, calls, arguments, stack, frames, reg, wrappers, clock,
              store_up, updates>>

\* The state outside the recorder.
others == <<scenario, column, request, report>>

vars == <<functions, calls, arguments, stack, frames, reg, wrappers, clock,
          store_up, updates, scenario, column, request, report>>

----------------------------------------------------------------------------
\* Bounds of the exploration.
MaxCalls == 2
MaxFunctions == 2
MaxClock == 1

\* The threads of the traced program, by threading.get_ident().
Threads == {1, 2}

\* Python's None: in a text column, in an integer column, in a float column.
None == "None"
NoneId == 0
NoneMs == -1

\* The callable identities (module, qualname, filename, lineno) of the traced
\* program, named by their qualname, with their parameters.
Keys == {"multiply", "may_fail"}

Params(k) ==
    CASE k = "multiply" -> <<"x", "y">>
      [] k = "add" -> <<"a", "b">>
      [] k = "Service.process" -> <<"self", "data">>
      [] k = "Service.build" -> <<"cls", "data">>
      [] k = "Service.version" -> <<>>
      [] k = "fetch" -> <<"url">>
      [] OTHER -> <<"flag">>

\* The parameters of a callable that have a default, with the default.
Defaults(k) == IF k = "multiply" THEN {[name |-> "y", value |-> "2"]} ELSE {}

\* The ints of the traced program, in decimal.
IntValues == {"3", "4", "6", "8", "14"}

\* Runtime values of the traced program: an int, an object json cannot encode
\* natively, and a dict keyed by a tuple.
Values == {"3", "Obj", "TupleKeyDict"}

\* What a call, a body or the wrapper yields.
NoOutcome == [tag |-> "none", value |-> None, kind |-> None, msg |-> None]

Returned(v) == [tag |-> "return", value |-> v, kind |-> None, msg |-> None]

Raised(kind, msg) == [tag |-> "raise", value |-> None, kind |-> kind, msg |-> msg]

\* The errors a body of the traced program raises by itself.
BodyErrors == {Raised("ValueError", "bad"), Raised("KeyboardInterrupt", "")}

\* What a statement raises while the database is not available.
StoreError == Raised("OperationalError", "database is locked")

\* json.dumps(val, default=str): default is asked for values json cannot encode,
\* never for the keys of a dict.
json_dumps(v) ==
    CASE v \in IntValues -> Returned(v)
      [] v = "Obj" -> Returned("\"<Obj>\"")
      [] v = "Service" -> Returned("\"<class 'Service'>\"")
      [] v = "Coroutine" -> Returned("\"<coroutine object fetch>\"")
      [] v = None -> Returned("null")
      [] v = "TupleKeyDict" ->
            Raised("TypeError", "keys must be str, int, float, bool or None, not tuple")

\* "." in func.__qualname__: methods and functions defined inside a function.
HasDot(k) == k \in {"Service.process", "Service.build", "Service.version"}

\* inspect.isclass(v).
isclass(v) == v = "Service"

\* v.__name__ of a class, type(v).__name__ of any other value.
NameOf(v) ==
    CASE v = "Service" -> "Service"
      [] v = "Obj" -> "Obj"
      [] v \in IntValues -> "int"
      [] v = "TupleKeyDict" -> "dict"
      [] v = "Coroutine" -> "coroutine"
      [] OTHER -> "NoneType"

\* inspect.iscoroutinefunction(func).
iscoroutinefunction(k) == k = "fetch"

\* isinstance(exc, Exception): what `except Exception` catches.
IsException(kind) == kind \notin {"KeyboardInterrupt", "SystemExit", "GeneratorExit"}

\* traceback.format_exc() inside the handler.
format_exc(e) == "Traceback (most recent call last): " \o e.kind

----------------------------------------------------------------------------
\* Sequence helpers.
Top(s) == s[Len(s)]

Pop(s) == SubSeq(s, 1, Len(s) - 1)

RECURSIVE Concat(_, _)
Concat(s, t) == IF t = <<>> THEN s ELSE Concat(Append(s, Head(t)), Tail(t))

\* inspect.signature(func).bind_partial(*args): the parameters in order, bound to
\* the values passed; parameters left to their defaults are not bound.
bind_partial(k, args) ==
    [i \in 1..Len(args) |-> [name |-> Params(k)[i], value |-> args[i]]]

\* The call expressions of the traced program: callable and positional arguments.
CallSites ==
    {[key |-> "multiply", args |-> <<"3">>],
     [key |-> "multiply", args |-> <<"Obj", "3">>],
     [key |-> "may_fail", args |-> <<"TupleKeyDict">>]}

----------------------------------------------------------------------------
\* No scripted program runs, no column is being written, no import is served, no
\* report has been rendered.
NoScenario == [thread |-> NoneId, at |-> 0, got |-> <<>>]

NoColumn == [table |-> None, stage |-> "idle", given |-> <<>>, value |-> <<>>, stored |-> <<>>]

NoReport ==
    [pc |-> "function", functions |-> <<>>, calls |-> <<>>, arguments |-> <<>>,
     texts |-> <<>>, saved |-> <<>>, loaded |-> <<>>, file |-> None]

NoRequest ==
    [command |-> None, fullname |-> None,
     stage |-> "idle", root |-> <<>>, prefix |-> <<>>, markers |-> <<>>,
     third_party |-> {}, found |-> [spec |-> FALSE, origin |-> None, path |-> <<>>],
     loader |-> None, runner_loader |-> None,
     source |-> [readable |-> FALSE, decodes |-> FALSE, parses |-> FALSE, body |-> <<>>],
     outcome |-> NoOutcome, executed |-> None, wrapped |-> <<>>, at |-> 0, importers |-> <<>>]

----------------------------------------------------------------------------
\* A frame of a thread: frame 1 is the thread's unwrapped code (key None), the
\* others are invocations of wrappers.  `received` is what the last call made
\* from the frame yielded, `body` what the wrapped body yielded, `before` the
\* thread's call stack when the wrapper was entered, `start` and `elapsed` the
\* wrapper's locals of these names, `call_id` the id of call_record once the
\* row is committed.
Frame(key, func_id, bound, pc, before) ==
    [key |-> key, func_id |-> func_id, args |-> bound, pc |-> pc, call_id |-> NoneId,
     start |-> 0, elapsed |-> 0, before |-> before, body |-> NoOutcome,
     received |-> NoOutcome]

\* A thread that is not inside decorator(func).
NoRegistration == [pc |-> "idle", key |-> None, func_id |-> NoneId]

InitRecorder ==
    /\ functions = <<>>
    /\ calls = <<>>
    /\ arguments = <<>>
    /\ stack = [t \in Threads |-> <<>>]
    /\ frames = [t \in Threads |-> <<Frame(None, NoneId, <<>>, "body", <<>>)>>]
    /\ reg = [t \in Threads |-> NoRegistration]
    /\ wrappers = {}
    /\ clock = 0
    /\ store_up = TRUE
    /\ updates = <<>>

\* The recorder before anything is decorated.
InitDecorator ==
    /\ InitRecorder
    /\ scenario = NoScenario
    /\ column = NoColumn
    /\ request = NoRequest
    /\ report = NoReport

\* The recorder once the module of the traced program has been executed with the
\* database available: multiply and may_fail are decorated, nothing is called yet.
Init ==
    /\ functions = <<[key |-> "multiply"], [key |-> "may_fail"]>>
    /\ calls = <<>>
    /\ arguments = <<>>
    /\ stack = [t \in Threads |-> <<>>]
    /\ frames = [t \in Threads |-> <<Frame(None, NoneId, <<>>, "body", <<>>)>>]
    /\ reg = [t \in Threads |-> NoRegistration]
    /\ wrappers = {[key |-> "multiply", func_id |-> 1], [key |-> "may_fail", func_id |-> 2]}
    /\ clock = 0
    /\ store_up = TRUE
    /\ updates = <<>>
    /\ scenario = NoScenario
    /\ column = NoColumn
    /\ request = NoRequest
    /\ report = NoReport

\* time.time() advances.
Tick ==
    /\ clock < MaxClock
    /\ clock' = clock + 1
    /\ UNCHANGED <<functions, calls, arguments, stack, frames, reg, wrappers,
                   store_up, updates>>

\* The database becomes unavailable / available again.
StoreOutage ==
    /\ store_up
    /\ store_up' = FALSE
    /\ UNCHANGED <<functions, calls, arguments, stack, frames, reg, wrappers,
                   clock, updates>>

StoreRestore ==
    /\ ~store_up
    /\ store_up' = TRUE
    /\ UNCHANGED <<functions, calls, arguments, stack, frames, reg, wrappers,
                   clock, updates>>

\* func(*args, **kwargs) of the frame lacks a required positional argument:
\* Python raises TypeError before the body starts.
Unbound(fr) ==
    /\ fr.func_id # NoneId
    /\ Len(fr.args) < Len(Params(fr.key)) - Cardinality(Defaults(fr.key))

\* Thread t is running code of the traced program (top level or a wrapped body)
\* that has no error of a callee to handle.
Running(t) ==
    /\ reg[t].pc = "idle"
    /\ Top(frames[t]).pc = "body"
    /\ Top(frames[t]).received.tag # "raise"
    /\ ~Unbound(Top(frames[t]))

\* The frames of a thread once its top frame has ended with `out`: the caller
\* goes on with what the call yielded.
Resume(fs, out) == [Pop(fs) EXCEPT ![Len(fs) - 1].received = out]

\* The frames of a thread whose running code got `out` from the decorator.
Receive(fs, out) == [fs EXCEPT ![Len(fs)].received = out]

----------------------------------------------------------------------------
\* decorator(func), the SELECT: the ids of the Function rows with func's key.
RowsOf(k) == {i \in 1..Len(functions) : functions[i].key = k}

\* session.exec(stmt).one_or_none() on the rows found.
one_or_none(rows) ==
    CASE rows = {} -> Returned(NoneId)
      [] Cardinality(rows) = 1 -> Returned(CHOOSE i \in rows : TRUE)
      [] OTHER -> Raised("MultipleResultsFound", "Multiple rows were found when one or none was required")

\* decorator(func) up to `existing = ...one_or_none()`: with the database not
\* available session.exec raises to the decorating code; when a row exists the
\* decorator is done and returns the wrapper bound to that row's id.
DecoratorSelect(t, k) ==
    /\ Running(t)
    /\ LET found == one_or_none(RowsOf(k))
       IN  IF ~store_up
           THEN /\ frames' = [frames EXCEPT ![t] = Receive(frames[t], StoreError)]
                /\ UNCHANGED <<wrappers, reg>>
           ELSE IF found.tag = "raise"
           THEN /\ frames' = [frames EXCEPT ![t] = Receive(frames[t], found)]
                /\ UNCHANGED <<wrappers, reg>>
           ELSE IF found.value = NoneId
           THEN /\ Len(functions) + Cardinality({u \in Threads : reg[u].pc = "insert"})
                        < MaxFunctions
                /\ reg' = [reg EXCEPT ![t] = [pc |-> "insert", key |-> k, func_id |-> NoneId]]
                /\ UNCHANGED <<wrappers, frames>>
           ELSE /\ wrappers' = wrappers \cup {[key |-> k, func_id |-> found.value]}
                /\ UNCHANGED <<frames, reg>>
    /\ UNCHANGED <<functions, calls, arguments, stack, clock, store_up, updates>>

\* decorator(func), existing is None: session.add and session.commit of the new
\* Function row; a failed commit raises to the decorating code.
DecoratorInsert(t) ==
    /\ reg[t].pc = "insert"
    /\ IF store_up
       THEN /\ functions' = Append(functions, [key |-> reg[t].key])
            /\ reg' = [reg EXCEPT ![t] = [pc |-> "refresh", key |-> reg[t].key,
                                          func_id |-> Len(functions) + 1]]
            /\ UNCHANGED frames
       ELSE /\ reg' = [reg EXCEPT ![t] = NoRegistration]
            /\ frames' = [frames EXCEPT ![t] = Receive(frames[t], StoreError)]
            /\ UNCHANGED functions
    /\ UNCHANGED <<calls, arguments, stack, wrappers, clock, store_up, updates>>

\* decorator(func): session.refresh(existing), func_id = existing.id, and the
\* wrapper is returned; a failed refresh raises and leaves the row without wrapper.
DecoratorRefresh(t) ==
    /\ reg[t].pc = "refresh"
    /\ reg' = [reg EXCEPT ![t] = NoRegistration]
    /\ IF store_up
       THEN /\ wrappers' = wrappers \cup {[key |-> reg[t].key, func_id |-> reg[t].func_id]}
            /\ UNCHANGED frames
       ELSE /\ frames' = [frames EXCEPT ![t] = Receive(frames[t], StoreError)]
            /\ UNCHANGED wrappers
    /\ UNCHANGED <<functions, calls, arguments, stack, clock, store_up, updates>>

----------------------------------------------------------------------------
\* A thread-local list read as if it were one list of the module.
StackOfModule(t) == stack[CHOOSE u \in Threads : \A w \in Threads : u <= w]

\* _call_stack.stack as thread t sees it: _call_stack is a threading.local().
StackOf(t) == stack[t]

\* A classification that keeps "function" for a first argument that is a plain
\* value and calls a method without receiver a staticmethod.
MethodTypeByReceiver(k, bound) ==
    IF HasDot(k) /\ bound # <<>>
    THEN IF isclass(bound[1].value)
         THEN [method_type |-> "classmethod", class_name |-> NameOf(bound[1].value)]
         ELSE IF bound[1].value = "Obj"
         THEN [method_type |-> "instancemethod", class_name |-> NameOf(bound[1].value)]
         ELSE [method_type |-> "staticmethod", class_name |-> None]
    ELSE [method_type |-> "function", class_name |-> None]

\* wrapper: method_type and class_name, from the qualified name and the first
\* bound argument; every value has a __class__.
MethodType(k, bound) ==
    IF HasDot(k) /\ bound # <<>>
    THEN IF isclass(bound[1].value)
         THEN [method_type |-> "classmethod", class_name |-> NameOf(bound[1].value)]
         ELSE [method_type |-> "instancemethod", class_name |-> NameOf(bound[1].value)]
    ELSE [method_type |-> "function", class_name |-> None]

\* A Call row whose parent column is given the Function id.
NewCallParentMixedUp(func_id, parent, start, tid, is_coro, kind) ==
    [function_id |-> func_id, parent_call_id |-> func_id, timestamp |-> start,
     thread_id |-> tid, is_coroutine |-> is_coro, method_type |-> kind.method_type,
     class_name |-> kind.class_name, duration_ms |-> NoneMs, return_value |-> None,
     exception_type |-> None, exception_message |-> None, tb |-> None]

\* A Call row stamped with the time left on a clock that counts down.
NewCallCountingDown(func_id, parent, start, tid, is_coro, kind) ==
    [function_id |-> func_id, parent_call_id |-> parent, timestamp |-> 0 - start,
     thread_id |-> tid, is_coroutine |-> is_coro, method_type |-> kind.method_type,
     class_name |-> kind.class_name, duration_ms |-> NoneMs, return_value |-> None,
     exception_type |-> None, exception_message |-> None, tb |-> None]

\* A Call row that names the first thread whoever makes the call.
NewCallOnFirstThread(func_id, parent, start, tid, is_coro, kind) ==
    [function_id |-> func_id, parent_call_id |-> parent, timestamp |-> start,
     thread_id |-> CHOOSE u \in Threads : \A w \in Threads : u <= w,
     is_coroutine |-> is_coro, method_type |-> kind.method_type,
     class_name |-> kind.class_name, duration_ms |-> NoneMs, return_value |-> None,
     exception_type |-> None, exception_message |-> None, tb |-> None]

\* The Call row the wrapper inserts.
NewCall(func_id, parent, start, tid, is_coro, kind) ==
    [function_id |-> func_id, parent_call_id |-> parent, timestamp |-> start,
     thread_id |-> tid, is_coroutine |-> is_coro, method_type |-> kind.method_type,
     class_name |-> kind.class_name, duration_ms |-> NoneMs, return_value |-> None,
     exception_type |-> None, exception_message |-> None, tb |-> None]

\* The traced program calls wrapper w: wrapper(*args) is entered, reads the
\* clock into start and binds the arguments (up to the first with-block).
Enter(t, w, site) ==
    /\ Running(t)
    /\ w \in wrappers
    /\ site.key = w.key
    /\ frames' = [frames EXCEPT ![t] = Append(Receive(frames[t], NoOutcome),
            [Frame(w.key, w.func_id, bind_partial(w.key, site.args), "entry", stack[t])
                EXCEPT !.start = clock])]
    /\ UNCHANGED <<functions, calls, arguments, stack, reg, wrappers, clock,
                   store_up, updates>>

\* A call of the free-running program, while the exploration has calls left.
Invoke(t, w, site) ==
    /\ Len(calls) + Cardinality({u \in Threads : Top(frames[u]).pc = "entry"}) < MaxCalls
    /\ Enter(t, w, site)

\* wrapper, the first with-block up to session.commit(): the Call row is stored
\* with the start read at entry and the parent on top of the thread's stack.  A
\* failed commit leaves the wrapper.
WrapperEntry(t) ==
    /\ Top(frames[t]).pc = "entry"
    /\ LET fr == Top(frames[t])
           parent == IF StackOf(t) # <<>> THEN Top(StackOf(t)) ELSE NoneId
           start == fr.start
           tid == t
           is_coro == iscoroutinefunction(fr.key)
           call_id == Len(calls) + 1
       IN  IF store_up
           THEN /\ calls' = Append(calls, NewCall(fr.func_id, parent, start, tid,
                                                  is_coro, MethodType(fr.key, fr.args)))
                /\ updates' = Append(updates, 0)
                /\ frames' = [frames EXCEPT ![t][Len(frames[t])].pc = "refresh",
                                            ![t][Len(frames[t])].call_id = call_id]
           ELSE /\ frames' = [frames EXCEPT ![t] = Resume(frames[t], StoreError)]
                /\ UNCHANGED <<calls, updates>>
    /\ UNCHANGED <<functions, arguments, stack, reg, wrappers, clock, store_up>>

\* wrapper: session.refresh(call_record), call_id = call_record.id and the push
\* of call_id.  A failed refresh leaves the wrapper with the row stored and
\* nothing pushed.
WrapperRefresh(t) ==
    /\ Top(frames[t]).pc = "refresh"
    /\ IF store_up
       THEN /\ stack' = [stack EXCEPT ![t] = Append(StackOf(t), Top(frames[t]).call_id)]
            /\ frames' = [frames EXCEPT ![t][Len(frames[t])].pc = "args"]
       ELSE /\ frames' = [frames EXCEPT ![t] = Resume(frames[t], StoreError)]
            /\ UNCHANGED stack
    /\ UNCHANGED <<functions, calls, arguments, reg, wrappers, clock, store_up, updates>>

\* A loop over bound.arguments that is left after its first turn.
ArgumentRowsFirstOnly(call_id, bound) ==
    [i \in 1..(IF bound = <<>> THEN 0 ELSE 1) |->
        [call_id |-> call_id, name |-> bound[i].name, value |-> json_dumps(bound[i].value).value]]

\* The Argument rows of call_id, one per bound argument, in binding order.
ArgumentRows(call_id, bound) ==
    [i \in 1..Len(bound) |->
        [call_id |-> call_id, name |-> bound[i].name, value |-> json_dumps(bound[i].value).value]]

\* The first error json.dumps raises over the bound arguments, if any.
DumpsError(bound) ==
    LET bad == {i \in 1..Len(bound) : json_dumps(bound[i].value).tag = "raise"}
    IN  IF bad = {} THEN NoOutcome
        ELSE json_dumps(bound[CHOOSE i \in bad : \A j \in bad : i <= j].value)

\* wrapper: the loop over bound.arguments and the commit of the Argument rows.
\* An error here leaves the with-block and the wrapper: nothing is committed and
\* nothing is popped.
WrapperArguments(t) ==
    /\ Top(frames[t]).pc = "args"
    /\ LET fr == Top(frames[t])
           err == IF DumpsError(fr.args).tag = "raise" THEN DumpsError(fr.args)
                  ELSE IF ~store_up THEN StoreError
                  ELSE NoOutcome
       IN  IF err.tag = "raise"
           THEN /\ frames' = [frames EXCEPT ![t] = Resume(frames[t], err)]
                /\ UNCHANGED arguments
           ELSE /\ arguments' = Concat(arguments, ArgumentRows(fr.call_id, fr.args))
                /\ frames' = [frames EXCEPT ![t][Len(frames[t])].pc = "body"]
    /\ UNCHANGED <<functions, calls, stack, reg, wrappers, clock, store_up, updates>>

----------------------------------------------------------------------------
\* result = func(*args, **kwargs): the body returns v.
BodyReturn(t, v) ==
    /\ Running(t)
    /\ Len(frames[t]) > 1
    /\ frames' = [frames EXCEPT ![t][Len(frames[t])].pc = "else",
                                ![t][Len(frames[t])].body = Returned(v),
                                ![t][Len(frames[t])].received = NoOutcome]
    /\ UNCHANGED <<functions, calls, arguments, stack, reg, wrappers, clock,
                   store_up, updates>>

\* The body raises an error of its own.
BodyRaise(t, e) ==
    /\ Running(t)
    /\ Len(frames[t]) > 1
    /\ frames' = [frames EXCEPT ![t][Len(frames[t])].pc = "except",
                                ![t][Len(frames[t])].body = e,
                                ![t][Len(frames[t])].received = NoOutcome]
    /\ UNCHANGED <<functions, calls, arguments, stack, reg, wrappers, clock,
                   store_up, updates>>

\* func(*args, **kwargs) lacks a required argument: TypeError, no body runs.
CallRejected(t) ==
    /\ reg[t].pc = "idle"
    /\ Top(frames[t]).pc = "body"
    /\ Unbound(Top(frames[t]))
    /\ frames' = [frames EXCEPT ![t][Len(frames[t])].pc = "except",
                                ![t][Len(frames[t])].body =
                                    Raised("TypeError", "missing 1 required positional argument")]
    /\ UNCHANGED <<functions, calls, arguments, stack, reg, wrappers, clock,
                   store_up, updates>>

\* The body does not handle the error of a callee: the error leaves the body.
BodyPropagate(t) ==
    /\ reg[t].pc = "idle"
    /\ Len(frames[t]) > 1
    /\ Top(frames[t]).pc = "body"
    /\ Top(frames[t]).received.tag = "raise"
    /\ frames' = [frames EXCEPT ![t][Len(frames[t])].pc = "except",
                                ![t][Len(frames[t])].body = Top(frames[t]).received,
                                ![t][Len(frames[t])].received = NoOutcome]
    /\ UNCHANGED <<functions, calls, arguments, stack, reg, wrappers, clock,
                   store_up, updates>>

\* The running code handles the error of a callee (try/except) and goes on.
BodyCatch(t) ==
    /\ reg[t].pc = "idle"
    /\ Top(frames[t]).pc = "body"
    /\ Top(frames[t]).received.tag = "raise"
    /\ frames' = [frames EXCEPT ![t][Len(frames[t])].received = NoOutcome]
    /\ UNCHANGED <<functions, calls, arguments, stack, reg, wrappers, clock,
                   store_up, updates>>

----------------------------------------------------------------------------
\* An else branch that leaves the row as it is until the result is complete.
RecordReturnLater(row, elapsed, text) == row

\* The else branch's update of the Call row: duration and serialized result.
RecordReturn(row, elapsed, text) ==
    [row EXCEPT !.duration_ms = elapsed, !.return_value = text]

\* The except branch's update of the Call row: duration and the error's fields.
RecordException(row, elapsed, exc) ==
    [row EXCEPT !.duration_ms = elapsed, !.exception_type = exc.kind,
                !.exception_message = exc.msg, !.tb = format_exc(exc)]

\* wrapper, the else branch: elapsed is read from the clock.
WrapperElse(t) ==
    /\ Top(frames[t]).pc = "else"
    /\ LET fr == Top(frames[t])
           elapsed == (clock - fr.start) * 1000
       IN  frames' = [frames EXCEPT ![t][Len(frames[t])].pc = "else_get",
                                    ![t][Len(frames[t])].elapsed = elapsed]
    /\ UNCHANGED <<functions, calls, arguments, stack, reg, wrappers, clock, store_up,
                   updates>>

\* wrapper, the else branch: session.get fetches the row and json.dumps turns
\* the result into text.  An error of either leaves the wrapper.
WrapperElseGet(t) ==
    /\ Top(frames[t]).pc = "else_get"
    /\ LET fr == Top(frames[t])
           dumped == json_dumps(fr.body.value)
           err == IF ~store_up THEN StoreError
                  ELSE IF dumped.tag = "raise" THEN dumped
                  ELSE NoOutcome
       IN  IF err.tag = "raise"
           THEN frames' = [frames EXCEPT ![t] = Resume(frames[t], err)]
           ELSE frames' = [frames EXCEPT ![t][Len(frames[t])].pc = "else_commit"]
    /\ UNCHANGED <<functions, calls, arguments, stack, reg, wrappers, clock, store_up,
                   updates>>

\* wrapper, the else branch: session.commit() of the updated row.
WrapperElseCommit(t) ==
    /\ Top(frames[t]).pc = "else_commit"
    /\ LET fr == Top(frames[t])
       IN  IF store_up
           THEN /\ calls' = [calls EXCEPT ![fr.call_id] =
                                RecordReturn(@, fr.elapsed, json_dumps(fr.body.value).value)]
                /\ updates' = [updates EXCEPT ![fr.call_id] = @ + 1]
                /\ frames' = [frames EXCEPT ![t][Len(frames[t])].pc = "else_pop"]
           ELSE /\ frames' = [frames EXCEPT ![t] = Resume(frames[t], StoreError)]
                /\ UNCHANGED <<calls, updates>>
    /\ UNCHANGED <<functions, arguments, stack, reg, wrappers, clock, store_up>>

\* wrapper, the else branch: _call_stack.stack.pop() and return result.
WrapperElsePop(t) ==
    /\ Top(frames[t]).pc = "else_pop"
    /\ stack' = [stack EXCEPT ![t] = Pop(StackOf(t))]
    /\ frames' = [frames EXCEPT ![t] = Resume(frames[t], Top(frames[t]).body)]
    /\ UNCHANGED <<functions, calls, arguments, reg, wrappers, clock, store_up, updates>>

\* wrapper, the body raised: `except Exception as exc` reads elapsed from the
\* clock and the traceback; an error that is no Exception passes the wrapper
\* untouched.
WrapperExcept(t) ==
    /\ Top(frames[t]).pc = "except"
    /\ LET fr == Top(frames[t])
           exc == fr.body
           elapsed == (clock - fr.start) * 1000
       IN  IF ~IsException(exc.kind)
           THEN frames' = [frames EXCEPT ![t] = Resume(frames[t], exc)]
           ELSE frames' = [frames EXCEPT ![t][Len(frames[t])].pc = "except_get",
                                         ![t][Len(frames[t])].elapsed = elapsed]
    /\ UNCHANGED <<functions, calls, arguments, stack, reg, wrappers, clock, store_up,
                   updates>>

\* wrapper, the except branch: session.get fetches the row; an error of it
\* leaves the handler in place of the body's error.
WrapperExceptGet(t) ==
    /\ Top(frames[t]).pc = "except_get"
    /\ IF ~store_up
       THEN frames' = [frames EXCEPT ![t] = Resume(frames[t], StoreError)]
       ELSE frames' = [frames EXCEPT ![t][Len(frames[t])].pc = "except_commit"]
    /\ UNCHANGED <<functions, calls, arguments, stack, reg, wrappers, clock, store_up,
                   updates>>

\* wrapper, the except branch: session.commit() of the row with the error.
WrapperExceptCommit(t) ==
    /\ Top(frames[t]).pc = "except_commit"
    /\ LET fr == Top(frames[t])
       IN  IF store_up
           THEN /\ calls' = [calls EXCEPT ![fr.call_id] =
                                RecordException(@, fr.elapsed, fr.body)]
                /\ updates' = [updates EXCEPT ![fr.call_id] = @ + 1]
                /\ frames' = [frames EXCEPT ![t][Len(frames[t])].pc = "except_pop"]
           ELSE /\ frames' = [frames EXCEPT ![t] = Resume(frames[t], StoreError)]
                /\ UNCHANGED <<calls, updates>>
    /\ UNCHANGED <<functions, arguments, stack, reg, wrappers, clock, store_up>>

\* wrapper, the except branch: _call_stack.stack.pop() and raise.
WrapperExceptPop(t) ==
    /\ Top(frames[t]).pc = "except_pop"
    /\ stack' = [stack EXCEPT ![t] = Pop(StackOf(t))]
    /\ frames' = [frames EXCEPT ![t] = Resume(frames[t], Top(frames[t]).body)]
    /\ UNCHANGED <<functions, calls, arguments, reg, wrappers, clock, store_up, updates>>

----------------------------------------------------------------------------
\* Threads decorating the functions of the traced program, with the database
\* going away and coming back.
NextDecorator ==
    \/ StoreOutage /\ UNCHANGED others
    \/ StoreRestore /\ UNCHANGED others
    \/ \E t \in Threads, k \in Keys : DecoratorSelect(t, k) /\ UNCHANGED others
    \/ \E t \in Threads : DecoratorInsert(t) /\ UNCHANGED others
    \/ \E t \in Threads : DecoratorRefresh(t) /\ UNCHANGED others
    \/ \E t \in Threads : BodyCatch(t) /\ UNCHANGED others

SpecDecorator == InitDecorator /\ [][NextDecorator]_vars

\* Threads calling the decorated functions, with the database going away and
\* coming back.
Next ==
    \/ Tick /\ UNCHANGED others
    \/ StoreOutage /\ UNCHANGED others
    \/ StoreRestore /\ UNCHANGED others
    \/ \E t \in Threads, site \in CallSites, f \in 1..MaxFunctions :
            Invoke(t, [key |-> site.key, func_id |-> f], site) /\ UNCHANGED others
    \/ \E t \in Threads : WrapperEntry(t) /\ UNCHANGED others
    \/ \E t \in Threads : WrapperRefresh(t) /\ UNCHANGED others
    \/ \E t \in Threads : WrapperArguments(t) /\ UNCHANGED others
    \/ \E t \in Threads, v \in Values : BodyReturn(t, v) /\ UNCHANGED others
    \/ \E t \in Threads, e \in BodyErrors : BodyRaise(t, e) /\ UNCHANGED others
    \/ \E t \in Threads : BodyPropagate(t) /\ UNCHANGED others
    \/ \E t \in Threads : BodyCatch(t) /\ UNCHANGED others
    \/ \E t \in Threads : WrapperElse(t) /\ UNCHANGED others
    \/ \E t \in Threads : WrapperElseGet(t) /\ UNCHANGED others
    \/ \E t \in Threads : WrapperElseCommit(t) /\ UNCHANGED others
    \/ \E t \in Threads : WrapperElsePop(t) /\ UNCHANGED others
    \/ \E t \in Threads : WrapperExcept(t) /\ UNCHANGED others
    \/ \E t \in Threads : WrapperExceptGet(t) /\ UNCHANGED others
    \/ \E t \in Threads : WrapperExceptCommit(t) /\ UNCHANGED others
    \/ \E t \in Threads : WrapperExceptPop(t) /\ UNCHANGED others

Spec == Init /\ [][Next]_vars

\* The recorder while every statement sent to the database succeeds.
NextStoreUp ==
    \/ Tick /\ UNCHANGED others
    \/ \E t \in Threads, site \in CallSites, f \in 1..MaxFunctions :
            Invoke(t, [key |-> site.key, func_id |-> f], site) /\ UNCHANGED others
    \/ \E t \in Threads : WrapperEntry(t) /\ UNCHANGED others
    \/ \E t \in Threads : WrapperRefresh(t) /\ UNCHANGED others
    \/ \E t \in Threads : WrapperArguments(t) /\ UNCHANGED others
    \/ \E t \in Threads, v \in Values : BodyReturn(t, v) /\ UNCHANGED others
    \/ \E t \in Threads, e \in BodyErrors : BodyRaise(t, e) /\ UNCHANGED others
    \/ \E t \in Threads : BodyPropagate(t) /\ UNCHANGED others
    \/ \E t \in Threads : BodyCatch(t) /\ UNCHANGED others
    \/ \E t \in Threads : WrapperElse(t) /\ UNCHANGED others
    \/ \E t \in Threads : WrapperElseGet(t) /\ UNCHANGED others
    \/ \E t \in Threads : WrapperElseCommit(t) /\ UNCHANGED others
    \/ \E t \in Threads : WrapperElsePop(t) /\ UNCHANGED others
    \/ \E t \in Threads : WrapperExcept(t) /\ UNCHANGED others
    \/ \E t \in Threads : WrapperExceptGet(t) /\ UNCHANGED others
    \/ \E t \in Threads : WrapperExceptCommit(t) /\ UNCHANGED others
    \/ \E t \in Threads : WrapperExceptPop(t) /\ UNCHANGED others

SpecStoreUp == Init /\ [][NextStoreUp]_vars

----------------------------------------------------------------------------

\* A traced program with a class: the instance method Service.process(self, data),
\* the class method Service.build(cls, data), the static method Service.version()
\* and the function multiply, every one decorated and called with the database
\* available.  Service.process is also called through the class with a plain
\* value in the place of self, multiply with a class as its first argument and
\* with no argument.  A call that lacks a required argument raises TypeError
\* before its body starts; a body returns or raises TypeError.

KindSites ==
    {[key |-> "Service.process", args |-> <<"Obj", "3">>],
     [key |-> "Service.process", args |-> <<"3">>],
     [key |-> "Service.build", args |-> <<"Service", "3">>],
     [key |-> "Service.version", args |-> <<>>],
     [key |-> "multiply", args |-> <<"Service">>],
     [key |-> "multiply", args |-> <<>>]}


NextKinds ==
    \/ \E t \in Threads, k \in {"Service.process", "Service.build", "Service.version", "multiply"} : DecoratorSelect(t, k) /\ UNCHANGED others
    \/ \E t \in Threads : DecoratorInsert(t) /\ UNCHANGED others
    \/ \E t \in Threads : DecoratorRefresh(t) /\ UNCHANGED others
    \/ \E t \in Threads, site \in KindSites, f \in 1..MaxFunctions :
            Invoke(t, [key |-> site.key, func_id |-> f], site) /\ UNCHANGED others
    \/ \E t \in Threads : WrapperEntry(t) /\ UNCHANGED others
    \/ \E t \in Threads : WrapperRefresh(t) /\ UNCHANGED others
    \/ \E t \in Threads : WrapperArguments(t) /\ UNCHANGED others
    \/ \E t \in Threads : CallRejected(t) /\ UNCHANGED others
    \/ \E t \in Threads : BodyReturn(t, "3") /\ UNCHANGED others
    \/ \E t \in Threads :
          BodyRaise(t, Raised("TypeError", "unsupported operand type(s)")) /\ UNCHANGED others
    \/ \E t \in Threads : BodyPropagate(t) /\ UNCHANGED others
    \/ \E t \in Threads : BodyCatch(t) /\ UNCHANGED others
    \/ \E t \in Threads : WrapperElse(t) /\ UNCHANGED others
    \/ \E t \in Threads : WrapperElseGet(t) /\ UNCHANGED others
    \/ \E t \in Threads : WrapperElseCommit(t) /\ UNCHANGED others
    \/ \E t \in Threads : WrapperElsePop(t) /\ UNCHANGED others
    \/ \E t \in Threads : WrapperExcept(t) /\ UNCHANGED others
    \/ \E t \in Threads : WrapperExceptGet(t) /\ UNCHANGED others
    \/ \E t \in Threads : WrapperExceptCommit(t) /\ UNCHANGED others
    \/ \E t \in Threads : WrapperExceptPop(t) /\ UNCHANGED others

SpecKinds == InitDecorator /\ [][NextKinds]_vars

----------------------------------------------------------------------------

\* A traced program with a coroutine function: `async def fetch(url)` and
\* `def multiply(x, y=2)` are decorated; one thread runs an event loop at its top
\* level.  Calling fetch creates a coroutine object and runs nothing of its body;
\* the loop runs the body of a coroutine it holds, one at a time.  The database
\* is available.  scenario.got are the coroutine objects the loop holds, named
\* by the id of the Call that created them, scenario.at the one whose body is
\* running (NoneId when none is).

CoroutineSites ==
    {[key |-> "fetch", args |-> <<"3">>],
     [key |-> "multiply", args |-> <<"3">>]}


\* Thread t is at `result = func(*args, **kwargs)` of a coroutine function.
AtCoroutineCall(t) ==
    /\ Len(frames[t]) > 1
    /\ iscoroutinefunction(Top(frames[t]).key)

\* result = func(*args, **kwargs), func a coroutine function: the call returns the
\* coroutine object at once.
CoroutineCreated(t) ==
    /\ AtCoroutineCall(t)
    /\ BodyReturn(t, "Coroutine")
    /\ UNCHANGED others

\* The body of a function that is no coroutine function returns or raises.
PlainBodyReturn(t) ==
    /\ ~AtCoroutineCall(t)
    /\ BodyReturn(t, "6")
    /\ UNCHANGED others

PlainBodyRaise(t) ==
    /\ ~AtCoroutineCall(t)
    /\ BodyRaise(t, Raised("ValueError", "bad"))
    /\ UNCHANGED others

\* A call made by running code: top-level code, the body of a function, or the
\* body of the coroutine the loop is running.
CoroutineInvoke(t, w, site) ==
    /\ ~AtCoroutineCall(t)
    /\ Invoke(t, w, site)
    /\ UNCHANGED others

\* The wrapper returns; the loop's thread keeps the coroutine object its
\* top-level code was returned.
CoroutineElse(t) ==
    /\ WrapperElsePop(t)
    /\ scenario' =
          IF /\ scenario.thread = t
             /\ Len(frames[t]) = 2
             /\ Top(frames'[t]).received = Returned("Coroutine")
          THEN [scenario EXCEPT !.got = Append(@, Top(frames[t]).call_id)]
          ELSE scenario
    /\ UNCHANGED <<column, request, report>>

\* The loop starts the body of a coroutine it holds.
Await(t) ==
    /\ scenario.thread = t
    /\ Running(t)
    /\ Len(frames[t]) = 1
    /\ scenario.at = NoneId
    /\ scenario.got # <<>>
    /\ scenario' = [scenario EXCEPT !.at = Head(scenario.got), !.got = Tail(scenario.got)]
    /\ UNCHANGED <<recorder, column, request, report>>

\* The body of the running coroutine ends: the loop's code gets its result or
\* its error.
CoroutineEnds(t, out) ==
    /\ scenario.thread = t
    /\ Running(t)
    /\ Len(frames[t]) = 1
    /\ scenario.at # NoneId
    /\ scenario' = [scenario EXCEPT !.at = NoneId]
    /\ frames' = [frames EXCEPT ![t] = Receive(frames[t], out)]
    /\ UNCHANGED <<functions, calls, arguments, stack, reg, wrappers, clock, store_up,
                   updates, column, request, report>>

InitCoroutine ==
    /\ InitRecorder
    /\ scenario \in {[thread |-> t, at |-> NoneId, got |-> <<>>] : t \in Threads}
    /\ column = NoColumn
    /\ request = NoRequest
    /\ report = NoReport

NextCoroutine ==
    \/ Tick /\ UNCHANGED others
    \/ \E t \in Threads, k \in {"fetch", "multiply"} :
            Len(frames[t]) = 1 /\ DecoratorSelect(t, k) /\ UNCHANGED others
    \/ \E t \in Threads : DecoratorInsert(t) /\ UNCHANGED others
    \/ \E t \in Threads : DecoratorRefresh(t) /\ UNCHANGED others
    \/ \E t \in Threads, site \in CoroutineSites, f \in 1..MaxFunctions :
            CoroutineInvoke(t, [key |-> site.key, func_id |-> f], site)
    \/ \E t \in Threads : WrapperEntry(t) /\ UNCHANGED others
    \/ \E t \in Threads : WrapperRefresh(t) /\ UNCHANGED others
    \/ \E t \in Threads : WrapperArguments(t) /\ UNCHANGED others
    \/ \E t \in Threads : CoroutineCreated(t)
    \/ \E t \in Threads : PlainBodyReturn(t)
    \/ \E t \in Threads : PlainBodyRaise(t)
    \/ \E t \in Threads : BodyPropagate(t) /\ UNCHANGED others
    \/ \E t \in Threads : BodyCatch(t) /\ UNCHANGED others
    \/ \E t \in Threads : WrapperElse(t) /\ UNCHANGED others
    \/ \E t \in Threads : WrapperElseGet(t) /\ UNCHANGED others
    \/ \E t \in Threads : WrapperElseCommit(t) /\ UNCHANGED others
    \/ \E t \in Threads : CoroutineElse(t)
    \/ \E t \in Threads : WrapperExcept(t) /\ UNCHANGED others
    \/ \E t \in Threads : WrapperExceptGet(t) /\ UNCHANGED others
    \/ \E t \in Threads : WrapperExceptCommit(t) /\ UNCHANGED others
    \/ \E t \in Threads : WrapperExceptPop(t) /\ UNCHANGED others
    \/ \E t \in Threads : Await(t)
    \/ \E t \in Threads, out \in {Returned("3"), Raised("TimeoutError", "fetch timed out")} : CoroutineEnds(t, out)

SpecCoroutine == InitCoroutine /\ [][NextCoroutine]_vars

----------------------------------------------------------------------------
\* The scenario of usage/vibe_test.py: one thread decorates add and multiply and
\* evaluates add(multiply(3), multiply(4)) in unwrapped code, with the database
\* available.  Python evaluates the arguments of a call, left to right, before
\* it makes the call.

\* What the bodies of add and multiply return: a + b, x * y with y = 2 by default.
BodyResult(k, bound) ==
    LET args == [i \in 1..Len(bound) |-> bound[i].value]
    IN  CASE k = "multiply" /\ args = <<"3">> -> "6"
          [] k = "multiply" /\ args = <<"4">> -> "8"
          [] k = "add" /\ args = <<"6", "8">> -> "14"

\* The statements of the scenario, in evaluation order; the arguments of the
\* last call are the values the two calls before it returned.
Script ==
    <<[op |-> "decorate", key |-> "add", args |-> <<>>, results |-> FALSE],
      [op |-> "decorate", key |-> "multiply", args |-> <<>>, results |-> FALSE],
      [op |-> "call", key |-> "multiply", args |-> <<"3">>, results |-> FALSE],
      [op |-> "call", key |-> "multiply", args |-> <<"4">>, results |-> FALSE],
      [op |-> "call", key |-> "add", args |-> <<>>, results |-> TRUE]>>

\* The statement the scenario is at, for the thread that runs it.
At(t, op) ==
    /\ scenario.thread = t
    /\ scenario.at \in 1..Len(Script)
    /\ Script[scenario.at].op = op

\* @info_decorator(engine=engine) on a def: the lookup, the insert, the refresh.
ScenarioDecorate(t) ==
    /\ At(t, "decorate")
    /\ DecoratorSelect(t, Script[scenario.at].key)
    /\ UNCHANGED <<scenario, column, request, report>>

ScenarioInsert(t) ==
    /\ At(t, "decorate")
    /\ DecoratorInsert(t)
    /\ UNCHANGED <<scenario, column, request, report>>

ScenarioRegistered(t) ==
    /\ At(t, "decorate")
    /\ DecoratorRefresh(t)
    /\ scenario' = [scenario EXCEPT !.at = @ + 1]
    /\ UNCHANGED <<column, request, report>>

\* The call expression of the statement is evaluated: its wrapper is entered.
ScenarioCall(t) ==
    /\ At(t, "call")
    /\ Len(frames[t]) = 1
    /\ LET stmt == Script[scenario.at]
           args == IF stmt.results THEN scenario.got ELSE stmt.args
       IN  \E w \in wrappers : Enter(t, w, [key |-> stmt.key, args |-> args])
    /\ UNCHANGED <<scenario, column, request, report>>

ScenarioEntry(t) ==
    /\ At(t, "call")
    /\ WrapperEntry(t)
    /\ UNCHANGED <<scenario, column, request, report>>

ScenarioRefresh(t) ==
    /\ At(t, "call")
    /\ WrapperRefresh(t)
    /\ UNCHANGED <<scenario, column, request, report>>

ScenarioArguments(t) ==
    /\ At(t, "call")
    /\ WrapperArguments(t)
    /\ UNCHANGED <<scenario, column, request, report>>

ScenarioBody(t) ==
    /\ At(t, "call")
    /\ Len(frames[t]) > 1
    /\ BodyReturn(t, BodyResult(Top(frames[t]).key, Top(frames[t]).args))
    /\ UNCHANGED <<scenario, column, request, report>>

ScenarioElse(t) ==
    /\ At(t, "call")
    /\ WrapperElse(t)
    /\ UNCHANGED <<scenario, column, request, report>>

ScenarioGet(t) ==
    /\ At(t, "call")
    /\ WrapperElseGet(t)
    /\ UNCHANGED <<scenario, column, request, report>>

ScenarioCommit(t) ==
    /\ At(t, "call")
    /\ WrapperElseCommit(t)
    /\ UNCHANGED <<scenario, column, request, report>>

\* The wrapper returns: the statement is done and its value is kept.
ScenarioReturn(t) ==
    /\ At(t, "call")
    /\ WrapperElsePop(t)
    /\ scenario' = [scenario EXCEPT !.at = @ + 1,
                                    !.got = Append(@, Top(frames'[t]).received.value)]
    /\ UNCHANGED <<column, request, report>>

InitScenario ==
    /\ InitRecorder
    /\ scenario \in {[thread |-> t, at |-> 1, got |-> <<>>] : t \in Threads}
    /\ column = NoColumn
    /\ request = NoRequest
    /\ report = NoReport

NextScenario ==
    \/ Tick /\ UNCHANGED others
    \/ \E t \in Threads : ScenarioDecorate(t)
    \/ \E t \in Threads : ScenarioInsert(t)
    \/ \E t \in Threads : ScenarioRegistered(t)
    \/ \E t \in Threads : ScenarioCall(t)
    \/ \E t \in Threads : ScenarioEntry(t)
    \/ \E t \in Threads : ScenarioRefresh(t)
    \/ \E t \in Threads : ScenarioArguments(t)
    \/ \E t \in Threads : ScenarioBody(t)
    \/ \E t \in Threads : ScenarioElse(t)
    \/ \E t \in Threads : ScenarioGet(t)
    \/ \E t \in Threads : ScenarioCommit(t)
    \/ \E t \in Threads : ScenarioReturn(t)

SpecScenario == InitScenario /\ [][NextScenario]_vars

----------------------------------------------------------------------------
\* The text columns Argument.value and Call.return_value, written through the
\* ORM listeners of database/models.py.  A text is None (<<>> of kind "none") or
\* a str, kept as the sequence of its characters; characters are digits.
\* The texts of the recorder's explorations are shorter than ColumnLimit, which
\* the listeners leave as they are.

\* The length the listeners cut a text to.
ColumnLimit == 1000

\* Bounds of the texts: lengths 0..MaxShort and ColumnLimit - 1..ColumnLimit +
\* MaxOver, with MaxShift + 1 different contents per length.
MaxShort == 2
MaxOver == 2
MaxShift == 1

NoneText == [kind |-> "none", chars |-> <<>>]

Str(chars) == [kind |-> "str", chars |-> chars]

\* None and the strs of n characters whose i-th character is the digit (i + k) % 10.
ColumnTexts ==
    {NoneText} \cup
    {Str([i \in 1..n |-> (i + k) % 10]) :
        n \in (0..MaxShort) \cup ((ColumnLimit - 1)..(ColumnLimit + MaxOver)),
        k \in 0..MaxShift}

\* `if v and len(v) > 1000: v = v[:1000]`: None and "" are falsy.
Truncated(v) ==
    IF v.kind = "str" /\ v.chars # <<>> /\ Len(v.chars) > ColumnLimit
    THEN Str(SubSeq(v.chars, 1, ColumnLimit))
    ELSE v

\* The four listeners: what target.value / target.return_value is after them.
truncate_value_before_insert(value) == Truncated(value)

truncate_value_before_update(value) == Truncated(value)

truncate_return_before_insert(return_value) == Truncated(return_value)

\* A before_update listener that leaves the attribute as it is.
keep_return_before_update(return_value) == return_value

truncate_return_before_update(return_value) == Truncated(return_value)

\* The program builds a row object of `table` whose text attribute is v.
ColumnNew(table, v) ==
    /\ column.stage = "idle"
    /\ column' = [table |-> table, stage |-> "new", given |-> v, value |-> v,
                  stored |-> NoneText]
    /\ UNCHANGED <<recorder, scenario, request, report>>

\* session.add + commit of a new object: before_insert, then the INSERT.
ColumnInsert ==
    /\ column.stage = "new"
    /\ LET v == IF column.table = "Argument"
                THEN truncate_value_before_insert(column.value)
                ELSE truncate_return_before_insert(column.value)
       IN  column' = [column EXCEPT !.stage = "inserted", !.value = v, !.stored = v]
    /\ UNCHANGED <<recorder, scenario, request, report>>

\* The program assigns v to the text attribute of a persistent object.
ColumnAssign(v) ==
    /\ column.stage \in {"inserted", "read"}
    /\ column' = [column EXCEPT !.stage = "dirty", !.given = v, !.value = v]
    /\ UNCHANGED <<recorder, scenario, request, report>>

\* commit of a modified object: before_update, then the UPDATE.
ColumnUpdate ==
    /\ column.stage = "dirty"
    /\ LET v == IF column.table = "Argument"
                THEN truncate_value_before_update(column.value)
                ELSE truncate_return_before_update(column.value)
       IN  column' = [column EXCEPT !.stage = "updated", !.value = v, !.stored = v]
    /\ UNCHANGED <<recorder, scenario, request, report>>

\* session.get / refresh: the attribute is loaded from the column as stored.
ColumnRead ==
    /\ column.stage \in {"inserted", "updated"}
    /\ column' = [column EXCEPT !.stage = "read", !.value = column.stored]
    /\ UNCHANGED <<recorder, scenario, request, report>>

InitColumn ==
    /\ InitRecorder
    /\ scenario = NoScenario
    /\ request = NoRequest
    /\ report = NoReport
    /\ column = NoColumn

NextColumn ==
    \/ \E table \in {"Argument", "Call"}, v \in ColumnTexts : ColumnNew(table, v)
    \/ ColumnInsert
    \/ \E v \in ColumnTexts : ColumnAssign(v)
    \/ ColumnUpdate
    \/ ColumnRead

SpecColumn == InitColumn /\ [][NextColumn]_vars

----------------------------------------------------------------------------
\* The Instrumentation Selector of command/run.py: VibeFinder decides for the
\* file PathFinder found whether VibeLoader loads it.  A path is the sequence
\* of its components below "/".

\* The symbolic links of the file system: /link is a link to the project
\* directory /proj, /proj/ext a link to a directory outside of it.
Symlinks ==
    {[from |-> <<"link">>, to |-> <<"proj">>],
     [from |-> <<"proj", "ext">>, to |-> <<"opt", "ext">>]}

\* The files PathFinder can come back with, as spec.origin.
FileOrigins ==
    {<<"proj", "app.py">>,
     <<"link", "app.py">>,
     <<"proj", "pkg", "mod.py">>,
     <<"proj", "pkg", "fast.so">>,
     <<"proj", "pkg", "env", "lib", "tool.py">>,
     <<"proj", ".venv", "bin", "activate_this.py">>,
     <<"proj", ".venv", "lib", "site-packages", "dep.py">>,
     <<"proj", "vendor", "dist-packages", "v.py">>,
     <<"proj", "ext", "e.py">>,
     <<"proj2", "x.py">>,
     <<"usr", "lib", "os.py">>}

\* What PathFinder.find_spec comes back with: no spec, a spec whose origin is no
\* file, or the spec of a file.
NoSpec == [spec |-> FALSE, origin |-> None, path |-> <<>>]

Found ==
    {NoSpec}
        \cup {[spec |-> TRUE, origin |-> o, path |-> <<>>] : o \in {None, "built-in", "namespace"}}
        \cup {[spec |-> TRUE, origin |-> "file", path |-> f] : f \in FileOrigins}

\* Directories that may hold a pyvenv.cfg file or a conda-meta directory.
MarkerDirs == {<<"proj">>, <<"proj", ".venv">>, <<"proj", "pkg", "env">>}


\* What is on disk: which marker every directory of MarkerDirs holds.
MarkerChoices == [MarkerDirs -> {"none", "pyvenv.cfg", "conda-meta"}]

\* The directory the finder is given as project root; sys.prefix is /usr or the
\* environment /proj/.venv, sys.base_prefix is /usr.
RootChoices == {<<"proj">>, <<"link">>}

\* a is b or an ancestor directory of b.
IsPrefix(a, b) == Len(a) <= Len(b) /\ SubSeq(b, 1, Len(a)) = a

\* Path(p).resolve(): symbolic links are followed.
RECURSIVE resolve(_)
resolve(p) ==
    LET links == {l \in Symlinks : IsPrefix(l.from, p)}
    IN  IF links = {} THEN p
        ELSE LET l == CHOOSE l \in links : TRUE
             IN  resolve(l.to \o SubSeq(p, Len(l.from) + 1, Len(p)))

\* os.path.commonpath([a, b]): the longest common run of leading components.
commonpath(a, b) ==
    LET same == {n \in 0..Len(a) : n <= Len(b) /\ SubSeq(a, 1, n) = SubSeq(b, 1, n)}
    IN  SubSeq(a, 1, CHOOSE n \in same : \A m \in same : m <= n)

\* p.parents: the directories above p, nearest first, "/" last.
parents(p) == [i \in 1..Len(p) |-> SubSeq(p, 1, Len(p) - i)]

\* str(p).startswith(prefix + os.sep).
startswith_dir(p, prefix) == Len(p) > Len(prefix) /\ IsPrefix(prefix, p)

\* One name is a leading part of the other, character by character.
NameStartsWith(name, head) == name = head \/ (name = "proj2" /\ head = "proj")

\* (d / "pyvenv.cfg").is_file() or (d / "conda-meta").is_dir(), and the same test
\* on the listing os.walk gives of d.
is_env_root(markers, d) ==
    /\ resolve(d) \in MarkerDirs
    /\ \/ markers[resolve(d)] = "pyvenv.cfg"
       \/ markers[resolve(d)] = "conda-meta"

\* The directories of the file system.
Dirs == UNION {{parents(resolve(o))[i] : i \in 1..Len(resolve(o))} : o \in FileOrigins}

\* The dirpaths of os.walk(project_root) the loop body runs for: the directories
\* under project_root, itself included, not reached through a link to a
\* directory and not below a directory whose dirnames were cleared.
walked(project_root, markers) ==
    {project_root \o SubSeq(d, Len(resolve(project_root)) + 1, Len(d)) :
        d \in {d \in Dirs :
                /\ IsPrefix(resolve(project_root), d)
                /\ \A a \in Dirs :
                      (IsPrefix(resolve(project_root), a) /\ IsPrefix(a, d) /\ a # d)
                          => ~is_env_root(markers, a)}}

\* _collect_third_party_prefixes(project_root): purelib and platlib, sys.prefix,
\* sys.base_prefix (/usr), and the environment roots os.walk comes to.
collect_third_party_prefixes(project_root, prefix, markers) ==
    {prefix \o <<"lib", "site-packages">>, prefix, <<"usr">>}
        \cup {d \in walked(project_root, markers) : is_env_root(markers, d)}

\* Step 1 decided on the text of the two paths.
under_root_by_text(project_root, p) ==
    /\ Len(p) >= Len(project_root)
    /\ project_root # <<>>
    /\ SubSeq(p, 1, Len(project_root) - 1) = SubSeq(project_root, 1, Len(project_root) - 1)
    /\ NameStartsWith(p[Len(project_root)], project_root[Len(project_root)])

\* Step 1: os.path.commonpath([self.project_root, str(p)]) == self.project_root.
under_root(project_root, p) == commonpath(project_root, p) = project_root

\* Step 4: the walk up p.parents that stops at the project root.
RECURSIVE env_root_above(_, _, _)
env_root_above(project_root, markers, ps) ==
    IF ps = <<>> THEN FALSE
    ELSE IF Head(ps) = project_root THEN FALSE
    ELSE IF is_env_root(markers, Head(ps)) THEN TRUE
    ELSE env_root_above(project_root, markers, Tail(ps))

\* _inside_project without its step 3.
inside_project_without_step_3(project_root, third_party, markers, file_path) ==
    LET p == resolve(file_path)
    IN  /\ under_root(project_root, p)
        /\ \A prefix \in third_party : ~startswith_dir(p, prefix)
        /\ ~env_root_above(project_root, markers, parents(p))

\* VibeFinder._inside_project(file_path).
inside_project(project_root, third_party, markers, file_path) ==
    LET p == resolve(file_path)
    IN  /\ under_root(project_root, p)
        /\ \A prefix \in third_party : ~startswith_dir(p, prefix)
        /\ \A i \in 1..Len(p) : p[i] \notin {"site-packages", "dist-packages"}
        /\ ~env_root_above(project_root, markers, parents(p))

\* VibeFinder.find_spec: the loader of the spec it returns, None when it returns
\* no spec and the import goes on to the host's finders.
find_spec(project_root, third_party, markers, found) ==
    IF ~found.spec \/ found.origin \in {None, "built-in", "namespace"} THEN None
    ELSE IF ~inside_project(project_root, third_party, markers, found.path) THEN None
    ELSE "VibeLoader"

\* spec.origin.endswith('.py').
endswith_py(p) ==
    p[Len(p)] \in {"app.py", "mod.py", "tool.py", "activate_this.py", "dep.py", "v.py",
                   "e.py", "x.py", "os.py"}

\* VibeFinder.find_spec of command/runner.py, the finder of the installed
\* `vibetracer` command: the loader of the spec it returns.  The origin is made
\* absolute, links are not followed, and only os.path.relpath(origin, proj)
\* decides.
runner_find_spec(project_root, found) ==
    IF ~found.spec \/ found.origin # "file" THEN None
    ELSE IF ~endswith_py(found.path) THEN None
    ELSE IF ~IsPrefix(project_root, found.path) THEN None
    ELSE "VibeLoader"

----------------------------------------------------------------------------
\* VibeLoader.exec_module and TracingTransformer.  A source file is readable or
\* not, is UTF-8 text or not, parses or not, and holds the statements of its
\* body in the order of the file: an import, bare or inside a try statement
\* that catches Exception, an assignment, or a function
\* definition, def or async def, at module level, in a class body or nested in
\* a function, with the decorators written in the file.  A decorator is a call
\* of a name with a number of arguments.

\* How many module loads can be waiting for an import of theirs to end.
MaxImports == 2

InfoDecorator(nargs) == [name |-> "info_decorator", nargs |-> nargs]

Def(kind, level, decorators) == [kind |-> kind, level |-> level, decorators |-> decorators]

Text(body) == [readable |-> TRUE, decodes |-> TRUE, parses |-> TRUE, body |-> body]

Sources ==
    {[readable |-> FALSE, decodes |-> FALSE, parses |-> FALSE, body |-> <<>>],
     [readable |-> TRUE, decodes |-> FALSE, parses |-> FALSE, body |-> <<>>],
     [readable |-> TRUE, decodes |-> TRUE, parses |-> FALSE, body |-> <<>>],
     Text(<<>>),
     Text(<<Def("def", "module", <<>>)>>),
     Text(<<Def("async def", "class", <<>>), Def("def", "nested", <<>>)>>),
     Text(<<Def("def", "module", <<InfoDecorator(1)>>)>>),
     \* `import mod` followed by an assignment at module level
     Text(<<[kind |-> "import", level |-> "module", decorators |-> <<>>],
            [kind |-> "assign", level |-> "module", decorators |-> <<>>]>>),
     \* the import inside `try: ... except Exception: pass`, then an assignment
     Text(<<[kind |-> "try import", level |-> "module", decorators |-> <<>>],
            [kind |-> "assign", level |-> "module", decorators |-> <<>>]>>)}

\* What the file PathFinder found can hold: an extension module is no text.
SourcesOf(found) ==
    IF found.origin = "file" /\ ~endswith_py(found.path)
    THEN {source \in Sources : ~source.readable \/ ~source.decodes}
    ELSE Sources

\* visit_FunctionDef / visit_AsyncFunctionDef on every definition of the tree:
\* info_decorator() is put first in the decorator list, and generic_visit goes on
\* into the body.
TracingTransformer(body) ==
    [i \in 1..Len(body) |->
        IF body[i].kind \in {"def", "async def"}
        THEN [body[i] EXCEPT !.decorators = <<InfoDecorator(0)>> \o body[i].decorators]
        ELSE body[i]]

\* Calling info_decorator(engine) with nargs arguments.
info_decorator(nargs) ==
    IF nargs = 1 THEN Returned("decorator")
    ELSE Raised("TypeError", "info_decorator() missing 1 required positional argument: 'engine'")

\* exec(code, module.__dict__) on one statement that is no import: a definition
\* at module or class level evaluates its decorator expressions first and raises
\* the error of the first that raises; yields how many recorder wrappers the
\* definition got.
exec_statement(stmt) ==
    IF stmt.kind \in {"def", "async def"} /\ stmt.level \in {"module", "class"}
    THEN IF \E j \in 1..Len(stmt.decorators) : info_decorator(stmt.decorators[j].nargs).tag = "raise"
         THEN [outcome |-> Raised("TypeError",
                  "info_decorator() missing 1 required positional argument: 'engine'"),
               wrapped |-> 0]
         ELSE [outcome |-> Returned(None), wrapped |-> Len(stmt.decorators)]
    ELSE [outcome |-> Returned(None), wrapped |-> 0]

\* An exec_module that leaves the module empty when its source cannot be used.
exec_module_swallowing(source) ==
    IF ~source.readable \/ ~source.decodes \/ ~source.parses
    THEN [outcome |-> Returned(None), executed |-> "none"]
    ELSE [outcome |-> NoOutcome, executed |-> "instrumented"]

\* VibeLoader.exec_module(module) up to exec(code, module.__dict__): read, parse,
\* transform, compile; an error of any step leaves exec_module.
exec_module(source) ==
    IF ~source.readable
    THEN [outcome |-> Raised("OSError", "cannot read source"), executed |-> "none"]
    ELSE IF ~source.decodes
    THEN [outcome |-> Raised("UnicodeDecodeError", "invalid start byte"), executed |-> "none"]
    ELSE IF ~source.parses
    THEN [outcome |-> Raised("SyntaxError", "invalid syntax"), executed |-> "none"]
    ELSE [outcome |-> NoOutcome, executed |-> "instrumented"]


\* The loader of the spec the installed finder answered with.
UsedLoader ==
    IF request.command = "runner" THEN request.runner_loader ELSE request.loader

\* run_script(script_path) after the finder is installed: the entry script is
\* loaded as __main__ by a VibeLoader that run_script builds itself; no finder is
\* asked.  exec_module begins: on a source it can use, the script's statements
\* are about to run.
RunScript(source) ==
    /\ request.stage = "installed"
    /\ LET done == exec_module(source)
       IN  request' = [request EXCEPT
               !.stage = IF done.executed = "instrumented" THEN "executing" ELSE "loaded",
               !.fullname = "__main__",
               !.loader = "VibeLoader",
               !.runner_loader = "VibeLoader",
               !.source = source,
               !.outcome = done.outcome,
               !.executed = done.executed,
               !.wrapped = [i \in 1..Len(source.body) |-> 0],
               !.at = 1]
    /\ UNCHANGED <<recorder, scenario, column, report>>

\* exec(code, module.__dict__) of the module being loaded runs its next
\* statement, which is no import: an error of it leaves exec_module.
ExecStatement ==
    /\ request.stage = "executing"
    /\ request.executed = "instrumented"
    /\ request.at <= Len(request.source.body)
    /\ request.source.body[request.at].kind \notin {"import", "try import"}
    /\ LET run == exec_statement(TracingTransformer(request.source.body)[request.at])
       IN  IF run.outcome.tag = "raise"
           THEN request' = [request EXCEPT !.stage = "loaded", !.outcome = run.outcome]
           ELSE request' = [request EXCEPT !.wrapped[request.at] = run.wrapped,
                                           !.at = @ + 1]
    /\ UNCHANGED <<recorder, scenario, column, report>>

\* exec(code, module.__dict__) has run the last statement: exec_module returns.
ExecReturns ==
    /\ request.stage = "executing"
    /\ request.executed = "instrumented"
    /\ request.at > Len(request.source.body)
    /\ request' = [request EXCEPT !.stage = "loaded", !.outcome = Returned(None)]
    /\ UNCHANGED <<recorder, scenario, column, report>>

\* What is kept of a module while an import of its code is served.
Suspended ==
    [fullname |-> request.fullname, source |-> request.source,
     executed |-> request.executed, wrapped |-> request.wrapped, at |-> request.at]

\* The module being executed imports a module (the next statement of an
\* instrumented module, any statement of a module run as written): the finder is
\* asked for a module PathFinder finds as `found`, and the importer waits.
FindSpec(found) ==
    /\ request.stage = "executing"
    /\ \/ request.executed = "original"
       \/ /\ request.executed = "instrumented"
          /\ request.at <= Len(request.source.body)
          /\ request.source.body[request.at].kind \in {"import", "try import"}
    /\ Len(request.importers) < MaxImports
    /\ request' = [request EXCEPT
            !.importers = Append(@, Suspended),
            !.stage = "found",
            !.fullname = "module",
            !.found = found,
            !.loader = find_spec(request.root, request.third_party, request.markers, found),
            !.runner_loader = runner_find_spec(request.root, found),
            !.source = NoRequest.source,
            !.outcome = NoOutcome,
            !.executed = None,
            !.wrapped = <<>>,
            !.at = 0]
    /\ UNCHANGED <<recorder, scenario, column, report>>

\* The import system loads the module with the loader of the finder's spec:
\* exec_module begins.
ExecModule(source) ==
    /\ request.stage = "found"
    /\ UsedLoader = "VibeLoader"
    /\ source \in SourcesOf(request.found)
    /\ LET done == exec_module(source)
       IN  request' = [request EXCEPT
               !.stage = IF done.executed = "instrumented" THEN "executing" ELSE "loaded",
               !.source = source,
               !.outcome = done.outcome,
               !.executed = done.executed,
               !.wrapped = [i \in 1..Len(source.body) |-> 0],
               !.at = 1]
    /\ UNCHANGED <<recorder, scenario, column, report>>

\* The finder returned no spec: the host's own finders and loaders go on with
\* the import, one of them has the module, and its code runs as written.
PassThrough ==
    /\ request.stage = "found"
    /\ UsedLoader = None
    /\ request' = [request EXCEPT !.stage = "executing", !.executed = "original"]
    /\ UNCHANGED <<recorder, scenario, column, report>>

\* The finder returned no spec and no finder of the host has the module either:
\* the import raises ModuleNotFoundError.
NotFound ==
    /\ request.stage = "found"
    /\ UsedLoader = None
    /\ ~request.found.spec
    /\ request' = [request EXCEPT
            !.stage = "loaded",
            !.executed = "none",
            !.outcome = Raised("ModuleNotFoundError", "No module named 'module'")]
    /\ UNCHANGED <<recorder, scenario, column, report>>

\* The code of a module run as written has come to its end: it returns, or an
\* error of its own leaves it.
HostEnds(outcome) ==
    /\ request.stage = "executing"
    /\ request.executed = "original"
    /\ request' = [request EXCEPT !.stage = "loaded", !.outcome = outcome]
    /\ UNCHANGED <<recorder, scenario, column, report>>

\* The importer that waited, as the module being executed again.
Resumed(m) ==
    [request EXCEPT
        !.importers = Pop(@),
        !.fullname = m.fullname,
        !.found = NoSpec,
        !.loader = IF m.executed = "instrumented" THEN "VibeLoader" ELSE None,
        !.runner_loader = IF m.executed = "instrumented" THEN "VibeLoader" ELSE None,
        !.source = m.source,
        !.executed = m.executed,
        !.wrapped = m.wrapped,
        !.at = m.at]

\* The imported module is loaded: the import statement is done and the importer
\* goes on with its next statement.
ImportReturns ==
    /\ request.stage = "loaded"
    /\ request.outcome.tag = "return"
    /\ request.importers # <<>>
    /\ LET m == Top(request.importers)
       IN  request' = [Resumed(m) EXCEPT
               !.stage = "executing",
               !.outcome = NoOutcome,
               !.at = IF m.executed = "instrumented" THEN m.at + 1 ELSE m.at]
    /\ UNCHANGED <<recorder, scenario, column, report>>

\* The importer's code catches what its import statement raises: a module run
\* as written may hold any handler, the try statement of an instrumented module
\* catches Exception.
Catching(m, error) ==
    \/ m.executed = "original"
    \/ /\ m.executed = "instrumented"
       /\ m.source.body[m.at].kind = "try import"
       /\ IsException(error.kind)

\* Loading the imported module raised: the import statement raises the error in
\* the importer, which does not catch it, so its own load ends with the error.
ImportRaises ==
    /\ request.stage = "loaded"
    /\ request.outcome.tag = "raise"
    /\ request.importers # <<>>
    /\ LET m == Top(request.importers)
       IN  /\ m.executed = "instrumented" => ~Catching(m, request.outcome)
           /\ request' = [Resumed(m) EXCEPT !.stage = "loaded"]
    /\ UNCHANGED <<recorder, scenario, column, report>>

\* Loading the imported module raised and the importer catches the error: it
\* goes on after its try statement.
ImportCaught ==
    /\ request.stage = "loaded"
    /\ request.outcome.tag = "raise"
    /\ request.importers # <<>>
    /\ LET m == Top(request.importers)
       IN  /\ Catching(m, request.outcome)
           /\ request' = [Resumed(m) EXCEPT
                   !.stage = "executing",
                   !.outcome = NoOutcome,
                   !.at = IF m.executed = "instrumented" THEN m.at + 1 ELSE m.at]
    /\ UNCHANGED <<recorder, scenario, column, report>>

\* run_script up to sys.meta_path.insert(0, VibeFinder(...)), on some file
\* system: PROJECT_ROOT is the directory of the script.
InitSelector ==
    /\ InitRecorder
    /\ scenario = NoScenario
    /\ column = NoColumn
    /\ report = NoReport
    /\ \E command \in {"run", "runner"}, root \in RootChoices, prefix \in {<<"usr">>, <<"proj", ".venv">>},
          markers \in MarkerChoices :
          request = [NoRequest EXCEPT
              !.command = command,
              !.stage = "installed",
              !.root = root,
              !.prefix = prefix,
              !.markers = markers,
              !.third_party = collect_third_party_prefixes(root, prefix, markers)]

NextSelector ==
    \/ \E source \in Sources : RunScript(source)
    \/ ExecStatement
    \/ ExecReturns
    \/ \E found \in Found : FindSpec(found)
    \/ \E source \in Sources : ExecModule(source)
    \/ PassThrough
    \/ NotFound
    \/ \E outcome \in {Returned(None), Raised("RuntimeError", "failed"), Raised("SystemExit", "1")} :
          HostEnds(outcome)
    \/ ImportReturns
    \/ ImportRaises
    \/ ImportCaught

SpecSelector == InitSelector /\ [][NextSelector]_vars

----------------------------------------------------------------------------
\* Dumper.dump_llm_text of database/dumper.py.  The text is the sequence of its
\* lines; a line is the depth of its [DEPTH=n] prefix (NoDepth when it has none),
\* its label and what follows the label.  pandas loads the tables in the order
\* of the rows' ids.

\* Bounds of the stores that are rendered and of the renderings of one store.
MaxDumpCalls == 4
MaxDumps == 2

NoDepth == -1

Line(depth, label, value) == [depth |-> depth, label |-> label, value |-> value]

\* The children list of calls_by_id[pid]: the ids of the rows whose parent_call_id
\* is pid, in row order.
RECURSIVE children_from(_, _, _)
children_from(cls, pid, c) ==
    IF c > Len(cls) THEN <<>>
    ELSE IF cls[c].parent_call_id = pid THEN <<c>> \o children_from(cls, pid, c + 1)
    ELSE children_from(cls, pid, c + 1)

children(cls, pid) == children_from(cls, pid, 1)

\* root_calls: the rows whose parent_call_id is null, in row order.
root_calls(cls) == children(cls, NoneId)

\* Ids left in the order of the rows.
by_row_order(ids, cls) == ids

\* sorted(ids, key=timestamp): ascending, and stable for equal timestamps.
RECURSIVE sorted_by_timestamp(_, _)
sorted_by_timestamp(ids, cls) ==
    IF ids = <<>> THEN <<>>
    ELSE LET front == sorted_by_timestamp(SubSeq(ids, 1, Len(ids) - 1), cls)
             x == ids[Len(ids)]
             keep == {n \in 0..Len(front) :
                        \A i \in 1..n : cls[front[i]].timestamp <= cls[x].timestamp}
             at == CHOOSE n \in keep : \A m \in keep : m <= n
         IN  SubSeq(front, 1, at) \o <<x>> \o SubSeq(front, at + 1, Len(front))

\* f"{c.get('duration_ms')}": None when the whole column is null, nan when only
\* this row's is.
DurationText(cls, c) ==
    IF cls[c].duration_ms # NoneMs THEN ToString(cls[c].duration_ms)
    ELSE IF \A d \in 1..Len(cls) : cls[d].duration_ms = NoneMs THEN "None"
    ELSE "nan"

\* arg_map.get(call_id): the lines of the call's arguments, in row order.
ArgumentLines(args, call_id, depth) ==
    LET rows == SelectSeq(args, LAMBDA r : r.call_id = call_id)
    IN  IF rows = <<>> THEN <<>>
        ELSE <<Line(depth, "Arguments", "")>> \o
             [i \in 1..Len(rows) |-> Line(depth, "- " \o rows[i].name, rows[i].value)]

\* The lines of a sequence of sequences of lines, one after the other.
RECURSIVE Flatten(_)
Flatten(ss) == IF ss = <<>> THEN <<>> ELSE Head(ss) \o Flatten(Tail(ss))

\* A render_call that gives the children the depth of their parent.
RECURSIVE render_call_same_depth(_, _, _, _)
render_call_same_depth(cls, args, call_id, depth) ==
    LET c == cls[call_id]
        kids == sorted_by_timestamp(children(cls, call_id), cls)
    IN  <<Line(depth, "CALL", ToString(call_id))>>
            \o Flatten([i \in 1..Len(kids) |-> render_call_same_depth(cls, args, kids[i], depth)])

\* render_call(call_id, depth, lines): the block of the call, then the blocks of
\* its children by ascending timestamp, each with its whole subtree.
RECURSIVE render_call(_, _, _, _)
render_call(cls, args, call_id, depth) ==
    LET c == cls[call_id]
        kids == sorted_by_timestamp(children(cls, call_id), cls)
    IN  <<Line(depth, "CALL", ToString(call_id)),
          Line(depth, "Function ID", ToString(c.function_id)),
          Line(depth, "Timestamp", ToString(c.timestamp)),
          Line(depth, "Duration (ms)", DurationText(cls, call_id)),
          Line(depth, "Thread ID", ToString(c.thread_id)),
          Line(depth, "Coroutine", ToString(c.is_coroutine)),
          Line(depth, "Method Type", c.method_type),
          Line(depth, "Class", c.class_name)>>
            \o ArgumentLines(args, call_id, depth)
            \o (IF c.return_value # None
                THEN <<Line(depth, "Return Value", c.return_value)>> ELSE <<>>)
            \o (IF c.exception_type # None
                THEN <<Line(depth, "Exception", c.exception_type),
                       Line(depth, "-", c.exception_message)>> ELSE <<>>)
            \o (IF c.tb # None
                THEN <<Line(depth, "Traceback", ""), Line(depth, "", c.tb)>> ELSE <<>>)
            \o Flatten([i \in 1..Len(kids) |-> render_call(cls, args, kids[i], depth + 1)])

\* The Functions Metadata section.
FunctionLines(fns) ==
    Flatten([i \in 1..Len(fns) |->
        <<Line(NoDepth, "Function ID", ToString(i)),
          Line(NoDepth, "Qualified Name", fns[i].key),
          Line(NoDepth, "Source Code", ""),
          Line(NoDepth, "", "")>>])

\* A dump_llm_text whose text opens with the time it was made at.
dump_llm_text_dated(fns, cls, args, save) ==
    LET roots == sorted_by_timestamp(root_calls(cls), cls)
    IN  <<Line(NoDepth, "Generated at", ToString(clock)),
          Line(NoDepth, "=== Functions Metadata ===", "")>>
            \o FunctionLines(fns)
            \o <<Line(NoDepth, "=== Call Execution Flow ===", "")>>
            \o Flatten([i \in 1..Len(roots) |->
                    render_call(cls, args, roots[i], 0) \o <<Line(NoDepth, "", "")>>])

\* dump_llm_text(save) from the three data frames on: the two sections; save
\* writes the text to a file and leaves the text as it is.
dump_llm_text(fns, cls, args, save) ==
    LET roots == sorted_by_timestamp(root_calls(cls), cls)
    IN  <<Line(NoDepth, "=== Functions Metadata ===", "")>>
            \o FunctionLines(fns)
            \o <<Line(NoDepth, "=== Call Execution Flow ===", "")>>
            \o Flatten([i \in 1..Len(roots) |->
                    render_call(cls, args, roots[i], 0) \o <<Line(NoDepth, "", "")>>])

\* _load_dataframes: the next of its three SELECTs, each a statement of its own
\* sent to the database: the rows of the table as they are at that moment.
LoadDataframes ==
    /\ Len(report.texts) < MaxDumps
    /\ report.pc \in {"function", "call", "argument"}
    /\ report' = CASE report.pc = "function" ->
                        [report EXCEPT !.functions = functions, !.pc = "call"]
                    [] report.pc = "call" ->
                        [report EXCEPT !.calls = calls, !.pc = "argument"]
                    [] report.pc = "argument" ->
                        [report EXCEPT !.arguments = arguments, !.pc = "render"]
    /\ UNCHANGED <<recorder, scenario, column, request>>

\* dump_llm_text(save) after _load_dataframes: the text is built from the data
\* frames, written to dump_llm.txt when save is set, and returned.
DumpLlmText(save) ==
    /\ report.pc = "render"
    /\ LET text == dump_llm_text(report.functions, report.calls, report.arguments, save)
       IN  report' = [pc |-> "function", functions |-> <<>>, calls |-> <<>>, arguments |-> <<>>,
                      texts |-> Append(report.texts, text),
                      saved |-> Append(report.saved, save),
                      loaded |-> Append(report.loaded,
                                    [functions |-> report.functions, calls |-> report.calls,
                                     arguments |-> report.arguments]),
                      file |-> IF save THEN text ELSE report.file]
    /\ UNCHANGED <<recorder, scenario, column, request>>

\* The stores that are rendered: up to MaxDumpCalls completed calls of multiply,
\* every one a root or the child of an earlier call, started at any time of the
\* clock; the first call with its argument row.
StoredCall(parent, start) ==
    RecordReturn(NewCall(1, parent, start, 1, FALSE, MethodType("multiply", <<>>)), 0, "6")

StoredCalls ==
    UNION {{cls \in [1..n -> {StoredCall(p, ts) : p \in 0..MaxDumpCalls, ts \in 0..MaxClock}] :
                \A c \in 1..n : cls[c].parent_call_id < c} : n \in 0..MaxDumpCalls}

InitDump ==
    /\ functions = <<[key |-> "multiply"]>>
    /\ calls \in StoredCalls
    /\ arguments = IF calls = <<>> THEN <<>> ELSE ArgumentRows(1, bind_partial("multiply", <<"3">>))
    /\ stack = [t \in Threads |-> <<>>]
    /\ frames = [t \in Threads |-> <<Frame(None, NoneId, <<>>, "body", <<>>)>>]
    /\ reg = [t \in Threads |-> NoRegistration]
    /\ wrappers = {[key |-> "multiply", func_id |-> 1]}
    /\ clock = MaxClock
    /\ store_up = TRUE
    /\ updates = [c \in 1..Len(calls) |-> 1]
    /\ scenario = NoScenario
    /\ column = NoColumn
    /\ request = NoRequest
    /\ report = NoReport

NextDump ==
    \/ LoadDataframes
    \/ \E save \in BOOLEAN : DumpLlmText(save)

SpecDump == InitDump /\ [][NextDump]_vars

\* The store is rendered while the program of the scenario is being recorded.
NextReport ==
    \/ NextScenario
    \/ NextDump

SpecReport == InitScenario /\ [][NextReport]_vars

----------------------------------------------------------------------------
\* Properties of the recorder.

\* The top frame of thread t ends in this step: its wrapper returns or raises.
Ends(t) == Len(frames'[t]) < Len(frames[t])

\* What the caller of the ended top frame of thread t got from the call.
Got(t) == Top(frames'[t]).received

\* The wrapper of the frame is in its else branch, in its except branch.
InElse(fr) == fr.pc \in {"else", "else_get", "else_commit", "else_pop"}

InExcept(fr) == fr.pc \in {"except", "except_get", "except_commit", "except_pop"}

\* The wrapper of the frame has called the wrapped function.
BodyStarted(fr) == fr.pc = "body" \/ InElse(fr) \/ InExcept(fr)

\* C1: a Call that starts while Call P is the innermost still-active wrapped call of
\* its thread is stored with parent_call_id = P's id, and a Call that starts while
\* no wrapped call is active on its thread is stored with a null parent.  Frame i-1
\* is the innermost active caller of frame i; frame 1 is unwrapped code.
C1_ParentIsInnermostActiveCall ==
    \A t \in Threads : \A i \in 2..Len(frames[t]) :
        frames[t][i].call_id # NoneId =>
            calls[frames[t][i].call_id].parent_call_id = frames[t][i - 1].call_id

\* C2: when the wrapped body raises an error the caller of the wrapper receives
\* that same error, and the Call row ends with the error's kind and message, a
\* non-empty traceback and a null return value.
C2_RaisedErrorIsRecordedAndPassedOn ==
    [][\A t \in Threads :
        (InExcept(Top(frames[t])) /\ Ends(t)) =>
            LET fr == Top(frames[t])
                row == calls'[fr.call_id]
            IN  /\ Got(t) = fr.body
                /\ row.exception_type = fr.body.kind
                /\ row.exception_message = fr.body.msg
                /\ row.tb # None
                /\ row.return_value = None]_vars

\* C3: with the store available, the wrapper returns to its caller the value the
\* body returned, and no wrapper is left because an argument or the result could
\* not be turned into text.
C3_ResultReturnedAndSerializationNeverFails ==
    [][\A t \in Threads :
        (store_up /\ Ends(t)) =>
            /\ Top(frames[t]).pc # "args"
            /\ InElse(Top(frames[t])) => Got(t) = Top(frames[t]).body]_vars

\* C4: when the store fails while the wrapper records an error of the body, the
\* caller still receives the body's error.
C4_StoreFailureKeepsBodyError ==
    [][\A t \in Threads :
        (InExcept(Top(frames[t])) /\ ~store_up /\ Ends(t)) =>
            Got(t) = Top(frames[t]).body]_vars

\* C5: when a store write fails at call entry (Call insert, Argument insert) or at
\* normal completion (Call update), the body has still been executed and its
\* result is what the caller gets.
C5_StoreFailureKeepsCallWorking ==
    [][\A t \in Threads :
        LET fr == Top(frames[t])
        IN  (/\ ~store_up
             /\ Ends(t)
             /\ fr.pc \in {"entry", "refresh", "args", "else_get", "else_commit"}
             /\ fr.pc = "args" => DumpsError(fr.args).tag = "none"
             /\ fr.pc = "else_get" => json_dumps(fr.body.value).tag = "return")
            => (InElse(fr) /\ Got(t) = fr.body)]_vars

\* C6: however the lookups and inserts of threads registering one callable
\* identity interleave, the store holds one Function row for that identity.
C6_OneFunctionRowUnderConcurrency ==
    \A k \in Keys : Cardinality(RowsOf(k)) <= 1

\* C7: registration is idempotent: every wrapper the decorator has returned for a
\* key is bound to the id of the one Function row of that key, and Function rows
\* are only ever added.
C7_RegistrationIdempotent ==
    [][/\ \A w \in wrappers' : RowsOf(w.key)' = {w.func_id}
       /\ SubSeq(functions', 1, Len(functions)) = functions]_vars

\* C8: call stacks are per thread: every Call with a parent has its parent's
\* thread_id, so a Call in flight on one thread is not the parent of a Call made
\* on another thread.
C8_ParentOnSameThread ==
    /\ \A c \in 1..Len(calls) :
          calls[c].parent_call_id # NoneId =>
              calls[calls[c].parent_call_id].thread_id = calls[c].thread_id
    /\ \A t \in Threads, u \in Threads : \A i \in 1..Len(frames[t]), c \in 1..Len(calls) :
          (t # u /\ frames[t][i].call_id # NoneId /\ calls[c].thread_id = u) =>
              calls[c].parent_call_id # frames[t][i].call_id

\* C8, its case: thread u started a Call while a Call of thread t was in flight in
\* its body.
C8_Witness_CallWhileOtherThreadInFlight ==
    \E t \in Threads, u \in Threads :
        /\ t # u
        /\ Top(frames[t]).pc = "body"
        /\ Top(frames[t]).call_id # NoneId
        /\ Top(frames[u]).call_id > Top(frames[t]).call_id
        /\ calls[Top(frames[u]).call_id].thread_id = u

\* C9: after a wrapped call ends on any exit path, the thread's call stack is what
\* it was before the call started.
C9_StackRestoredOnEveryExit ==
    [][\A t \in Threads : Ends(t) => stack'[t] = Top(frames[t]).before]_vars

\* C10: two-phase write: the Call row is committed before the body starts, is not
\* updated before the body has completed, and is updated exactly once when the
\* body has completed by return or by any raised error.
C10_TwoPhaseWrite ==
    [][/\ \A t \in Threads :
            (Len(frames[t]) > 1 /\ Top(frames[t]).pc # "entry") =>
                /\ Top(frames[t]).call_id \in 1..Len(calls)
                /\ Top(frames[t]).pc \notin {"else_pop", "except_pop"} =>
                       updates[Top(frames[t]).call_id] = 0
       /\ \A t \in Threads :
            ((InElse(Top(frames[t])) \/ InExcept(Top(frames[t]))) /\ Ends(t)) =>
                updates'[Top(frames[t]).call_id] = 1
       /\ \A c \in 1..Len(updates) : updates[c] <= 1]_vars

\* No Call row has both a return value and an exception type; a row with a return
\* value has the three exception fields null, and a row with an exception type
\* has message and traceback set and a null return value.
ReturnAndExceptionExclusive ==
    \A c \in 1..Len(calls) :
        /\ ~(calls[c].return_value # None /\ calls[c].exception_type # None)
        /\ calls[c].return_value # None =>
              /\ calls[c].exception_type = None
              /\ calls[c].exception_message = None
              /\ calls[c].tb = None
        /\ calls[c].exception_type # None =>
              /\ calls[c].exception_message # None
              /\ calls[c].tb # None
              /\ calls[c].return_value = None

\* C11: in every store state no Call row has both a non-null return value and a
\* non-null exception type: with the store available, a call that returned ends
\* with its return value set and the three exception fields null, and a call that
\* raised ends with the exception fields set and a null return value.
C11_ReturnedOrRaisedNeverBoth ==
    [][/\ ReturnAndExceptionExclusive'
       /\ \A t \in Threads :
            (store_up /\ Ends(t)
                /\ (InElse(Top(frames[t])) \/ InExcept(Top(frames[t])))) =>
                LET fr == Top(frames[t])
                    row == calls'[fr.call_id]
                IN  /\ InElse(fr) =>
                          /\ row.return_value # None
                          /\ row.exception_type = None
                          /\ row.exception_message = None
                          /\ row.tb = None
                    /\ InExcept(fr) =>
                          /\ row.exception_type # None
                          /\ row.exception_message # None
                          /\ row.tb # None
                          /\ row.return_value = None]_vars

\* C12: truncation law: a serialized text of length n is stored as its first 1000
\* characters when n > 1000 (stored length exactly 1000) and unchanged when
\* n <= 1000; this happens when the row is written, by insert and by update, and
\* a read leaves the stored text as it is and yields it.
C12_TruncationLaw ==
    [][/\ (column'.stage \in {"inserted", "updated"} /\ column.given.kind = "str") =>
            LET n == Len(column.given.chars)
            IN  /\ column'.stored.kind = "str"
                /\ n > 1000 =>
                      /\ Len(column'.stored.chars) = 1000
                      /\ \A i \in 1..1000 : column'.stored.chars[i] = column.given.chars[i]
                /\ n <= 1000 => column'.stored = column.given
       /\ column'.stage = "read" =>
            /\ column'.stored = column.stored
            /\ column'.value = column.stored]_vars

\* C12, its cases: a Call row updated with a text of 1001 characters holds 1000 of
\* them; an Argument row inserted with a text of 1000 characters holds them all.
C12_Witness_UpdateCutTo1000 ==
    /\ column.table = "Call"
    /\ column.stage = "updated"
    /\ Len(column.given.chars) = 1001
    /\ Len(column.stored.chars) = 1000

C12_Witness_InsertKeeps1000 ==
    /\ column.table = "Argument"
    /\ column.stage = "inserted"
    /\ Len(column.given.chars) = 1000
    /\ column.stored = column.given

\* The names of the Argument rows of Call c, in the order of their ids.
ArgumentNamesOf(c) ==
    LET rows == SelectSeq(arguments, LAMBDA r : r.call_id = c)
    IN  [i \in 1..Len(rows) |-> rows[i].name]

\* C13: all Argument rows of a Call are committed after its Call row is inserted
\* and before its body starts: once the body has started the Call has one row per
\* bound argument; rows are added only by the wrapper that is between the insert
\* of its Call row and its body, and no step changes or removes a row.
C13_ArgumentsCommittedBeforeBody ==
    [][/\ \A t \in Threads : \A i \in 2..Len(frames[t]) :
            BodyStarted(frames[t][i]) =>
                ArgumentNamesOf(frames[t][i].call_id)
                    = [j \in 1..Len(frames[t][i].args) |-> frames[t][i].args[j].name]
       /\ SubSeq(arguments', 1, Len(arguments)) = arguments
       /\ \A n \in (Len(arguments) + 1)..Len(arguments') :
            \E t \in Threads :
                /\ Top(frames[t]).pc = "args"
                /\ Top(frames[t]).call_id = arguments'[n].call_id
                /\ arguments'[n].call_id \in 1..Len(calls)
                /\ Top(frames'[t]).pc = "body"]_vars

\* C13, its case: a Call with two Argument rows has been completed by its update
\* while a later Call of another thread is in flight, and its rows are in place.
C13_Witness_RowsKeptAfterCompletion ==
    \E c \in 1..Len(calls), t \in Threads :
        /\ updates[c] = 1
        /\ Len(ArgumentNamesOf(c)) = 2
        /\ Top(frames[t]).call_id > c
        /\ Top(frames[t]).pc = "body"

\* C14: a call that omits a parameter with a default still gets an Argument row
\* holding the default: once the body of multiply(3) has started, the Call has the
\* rows x = 3 and y = 2.
C14_DefaultsAreRecorded ==
    \A t \in Threads : \A i \in 2..Len(frames[t]) :
        LET fr == frames[t][i]
        IN  BodyStarted(fr) =>
                /\ \A j \in 1..Len(fr.args) :
                      \E n \in 1..Len(arguments) :
                          /\ arguments[n].call_id = fr.call_id
                          /\ arguments[n].name = fr.args[j].name
                /\ \A d \in Defaults(fr.key) :
                      (\A j \in 1..Len(fr.args) : fr.args[j].name # d.name) =>
                          \E n \in 1..Len(arguments) :
                              /\ arguments[n].call_id = fr.call_id
                              /\ arguments[n].name = d.name
                              /\ arguments[n].value = d.value

\* The scenario has evaluated add(multiply(3), multiply(4)).
ScenarioDone == scenario.at = Len(Script) + 1

\* The ids of the Call rows of the callable named k.
CallsOf(k) == {c \in 1..Len(calls) : functions[calls[c].function_id].key = k}

\* C15 as stated: after add(multiply(3), multiply(4)) three Call rows are recorded
\* and the two multiply rows are the children of add's row (their parent_call_id
\* is add's Call id), in the order of their start timestamps.
C15_AddRowHasMultiplyChildren ==
    ScenarioDone =>
        /\ Len(calls) = 3
        /\ \E a \in CallsOf("add") :
              /\ Cardinality(CallsOf("multiply")) = 2
              /\ \A m \in CallsOf("multiply") : calls[m].parent_call_id = a
              /\ \A m \in CallsOf("multiply"), n \in CallsOf("multiply") :
                    m < n => calls[m].timestamp <= calls[n].timestamp

\* C15, amended: with the store available, after add(multiply(3), multiply(4))
\* three Call rows are recorded, multiply's two and then add's in the order of
\* their ids and start timestamps; the arguments were evaluated before add was
\* called, so the multiply rows are not children of add's row: the three rows
\* have the parent of the calling code (null at top level), add's row has no
\* children, and its return value is "14".
C15_AddRowFollowsMultiplyRows ==
    /\ Len(calls) <= 3
    /\ ScenarioDone =>
        /\ Len(calls) = 3
        /\ CallsOf("multiply") = {1, 2}
        /\ CallsOf("add") = {3}
        /\ \A c \in 1..3 : calls[c].parent_call_id = NoneId
        /\ calls[1].timestamp <= calls[2].timestamp
        /\ calls[2].timestamp <= calls[3].timestamp
        /\ calls[1].return_value = "6"
        /\ calls[2].return_value = "8"
        /\ calls[3].return_value = "14"

\* C15, its case: the scenario is done and time has passed between the start of
\* the first multiply and the start of add.
C15_Witness_ScenarioDone ==
    /\ ScenarioDone
    /\ Len(calls) = 3
    /\ calls[3].timestamp > calls[1].timestamp

----------------------------------------------------------------------------
\* Properties of the selector and the loader.

\* The finder has answered for a file.
AskedForFile ==
    /\ request.stage \in {"found", "executing", "loaded"}
    /\ request.fullname = "module"
    /\ request.found.origin = "file"

\* A module, the entry script included, was given to a VibeLoader and loading
\* is over.
LoadedByVibeLoader ==
    /\ request.stage = "loaded"
    /\ UsedLoader = "VibeLoader"

\* The file asked for, links followed, lies in the project directory.
InsideProjectRoot ==
    /\ IsPrefix(resolve(request.root), resolve(request.found.path))
    /\ resolve(request.root) # resolve(request.found.path)

\* A directory strictly between the file and the project root is an environment
\* root.
EnvRootBetween ==
    \E d \in Dirs :
        /\ IsPrefix(resolve(request.root), d)
        /\ d # resolve(request.root)
        /\ IsPrefix(d, resolve(request.found.path))
        /\ d # resolve(request.found.path)
        /\ d \in MarkerDirs
        /\ request.markers[d] \in {"pyvenv.cfg", "conda-meta"}

\* A component of the file's path is site-packages or dist-packages.
ThroughPackagesDir ==
    \E i \in 1..Len(resolve(request.found.path)) :
        resolve(request.found.path)[i] \in {"site-packages", "dist-packages"}

\* The file lies under sys.prefix, sys.base_prefix, purelib or platlib.
UnderInterpreter ==
    \E x \in {request.prefix, <<"usr">>, request.prefix \o <<"lib", "site-packages">>} :
        /\ IsPrefix(x, resolve(request.found.path))
        /\ x # resolve(request.found.path)

\* C16: a module whose resolved source file lies outside the project root is never
\* instrumented: VibeFinder.find_spec of command/run.py returns no spec for it,
\* and under command/run.py it is loaded by the host's import path, as written
\* and with no recorder wrapper.
C16_OutsideRootNeverInstrumented ==
    (AskedForFile /\ ~InsideProjectRoot) =>
        /\ request.loader = None
        /\ (request.stage = "loaded" /\ request.command = "run") =>
              /\ request.executed = "original"
              /\ request.wrapped = <<>>

\* C16, its case: a file reached through a link inside the project that leads out
\* of it has been loaded by the host's import path.
C16_Witness_LinkedOutsideFileLoaded ==
    /\ request.stage = "loaded"
    /\ request.command = "run"
    /\ request.fullname = "module"
    /\ request.root = <<"proj">>
    /\ request.found.path = <<"proj", "ext", "e.py">>
    /\ request.executed = "original"

\* C17: a module file inside the project root is never instrumented when a
\* directory between it and the project root is an environment root, when a
\* component of its path is site-packages or dist-packages, or when it lies under
\* the interpreter's prefix, base prefix, purelib or platlib.
C17_ExcludedFilesNeverInstrumented ==
    (AskedForFile /\ InsideProjectRoot
        /\ (EnvRootBetween \/ ThroughPackagesDir \/ UnderInterpreter)) =>
            request.loader = None

\* C17, its case: on a file system with no environment marker and the interpreter
\* outside the project, a file below a dist-packages directory of the project was
\* refused.
C17_Witness_PackagesDirRefused ==
    /\ request.stage = "found"
    /\ request.fullname = "module"
    /\ request.root = <<"proj">>
    /\ request.prefix = <<"usr">>
    /\ \A d \in MarkerDirs : request.markers[d] = "none"
    /\ request.found.path = <<"proj", "vendor", "dist-packages", "v.py">>
    /\ request.loader = None

\* C18: every module file inside the project root that matches none of the
\* exclusion rules is instrumented (the spec's loader is VibeLoader); a pyvenv.cfg
\* file or conda-meta directory in the project root directory itself excludes
\* nothing.
C18_IncludedFilesAreInstrumented ==
    (AskedForFile /\ InsideProjectRoot
        /\ ~EnvRootBetween /\ ~ThroughPackagesDir /\ ~UnderInterpreter) =>
            request.loader = "VibeLoader"

\* C19: when the source of a module selected for instrumentation cannot be read
\* or parsed, loading fails with an error raised to the importer, and no code of
\* the module has been executed.
C19_UnusableSourceFailsTheImport ==
    (/\ LoadedByVibeLoader
     /\ (~request.source.readable \/ ~request.source.decodes \/ ~request.source.parses)) =>
        /\ request.outcome.tag = "raise"
        /\ request.executed = "none"
        /\ \A i \in 1..Len(request.wrapped) : request.wrapped[i] = 0

\* C19, its case: a selected module whose source does not parse was loaded and
\* the importer got SyntaxError.
C19_Witness_SyntaxErrorRaised ==
    /\ request.stage = "loaded"
    /\ request.fullname = "module"
    /\ UsedLoader = "VibeLoader"
    /\ request.source.decodes
    /\ ~request.source.parses
    /\ request.outcome.kind = "SyntaxError"
    /\ request.importers # <<>>

\* C20: for an included module, loading succeeds and every function definition at
\* module and class level, def and async def, is wrapped by the recorder exactly
\* once when loading is done.
C20_EveryDefinitionWrappedOnce ==
    (/\ LoadedByVibeLoader
     /\ request.source.readable
     /\ request.source.parses) =>
        /\ request.outcome.tag = "return"
        /\ \A i \in 1..Len(request.source.body) :
              (/\ request.source.body[i].kind \in {"def", "async def"}
               /\ request.source.body[i].level \in {"module", "class"}) =>
                  request.wrapped[i] = 1

----------------------------------------------------------------------------
\* Properties of the report.

\* The ids of the Call blocks of a text with their depths, in the order of the text.
Blocks(text) == SelectSeq(text, LAMBDA l : l.label = "CALL")

\* Where the block of Call c is in the latest text (0 when it has none).
BlockOf(text, c) ==
    LET at == {i \in 1..Len(Blocks(text)) : Blocks(text)[i].value = ToString(c)}
    IN  IF at = {} THEN 0 ELSE CHOOSE i \in at : TRUE

\* Call a is an ancestor of Call d.
RECURSIVE IsAncestor(_, _, _)
IsAncestor(cls, a, d) ==
    /\ cls[d].parent_call_id # NoneId
    /\ cls[d].parent_call_id < d
    /\ \/ cls[d].parent_call_id = a
       \/ IsAncestor(cls, a, cls[d].parent_call_id)

\* C21: the Call Execution Flow lists the roots in ascending start-timestamp order
\* and walks every root depth-first in pre-order: a Call's block comes before its
\* children's, the children (and the roots) come in ascending timestamp order,
\* and the whole subtree of one of them comes before the block of the next.
C21_FlowIsPreOrderByTimestamp ==
    \A n \in 1..Len(report.texts) :
        LET text == report.texts[n]
        IN  \A c \in 1..Len(calls), d \in 1..Len(calls) :
                /\ BlockOf(text, c) > 0
                /\ calls[d].parent_call_id = c => BlockOf(text, c) < BlockOf(text, d)
                /\ (/\ c # d
                    /\ calls[c].parent_call_id = calls[d].parent_call_id
                    /\ calls[c].timestamp < calls[d].timestamp)
                        => BlockOf(text, c) < BlockOf(text, d)
                /\ (/\ c # d
                    /\ calls[c].parent_call_id = calls[d].parent_call_id
                    /\ BlockOf(text, c) < BlockOf(text, d))
                        => \A e \in 1..Len(calls) :
                              IsAncestor(calls, c, e) => BlockOf(text, e) < BlockOf(text, d)

\* C21, its case: a store was rendered in which the first Call has two children,
\* of which the one with the larger id started earlier and has a child of its
\* own, whose block comes before the block of the other child.
C21_Witness_ChildrenOutOfIdOrder ==
    /\ Len(report.texts) > 0
    /\ Len(calls) = 4
    /\ calls[2].parent_call_id = 1
    /\ calls[3].parent_call_id = 1
    /\ calls[4].parent_call_id = 3
    /\ calls[3].timestamp < calls[2].timestamp
    /\ BlockOf(report.texts[1], 3) < BlockOf(report.texts[1], 4)
    /\ BlockOf(report.texts[1], 4) < BlockOf(report.texts[1], 2)

C23_BothFindersDecideAlike ==
    AskedForFile =>
        /\ request.runner_loader = request.loader
        /\ (InsideProjectRoot /\ (EnvRootBetween \/ ThroughPackagesDir \/ UnderInterpreter))
              => request.runner_loader = None

----------------------------------------------------------------------------
\* C24: in every reachable state of the store, a Call that has a parent started no
\* earlier than its parent: its timestamp is greater than or equal to
\* the timestamp of the row its parent_call_id names (time.time() only advances).
C24_ChildStartsNoEarlierThanParent ==
    \A c \in 1..Len(calls) :
        calls[c].parent_call_id # NoneId =>
            /\ calls[c].parent_call_id \in 1..Len(calls)
            /\ calls[calls[c].parent_call_id].timestamp <= calls[c].timestamp

\* C24, its case: the clock advanced between the start of a Call and the start of
\* its child.
C24_Witness_ChildStartedLater ==
    \E c \in 1..Len(calls) :
        /\ calls[c].parent_call_id # NoneId
        /\ calls[calls[c].parent_call_id].timestamp < calls[c].timestamp

----------------------------------------------------------------------------
\* The one thread that takes a step in this step of the recorder.
Stepping(t) ==
    /\ frames'[t] # frames[t]
    /\ \A u \in Threads \ {t} : frames'[u] = frames[u]

\* C25: under every interleaving, a Call row is inserted and updated only by the
\* thread that made the invocation, and so are its Argument rows: whenever a row
\* of Call appears or changes, or a row of Argument appears, the step is taken by
\* one thread, that thread is the row's thread_id and the row is the Call of the
\* wrapper invocation on top of that thread's frames.
C25_RowsWrittenByOwningThread ==
    [][/\ \A c \in 1..Len(calls') :
            (c > Len(calls) \/ calls'[c] # calls[c]) =>
                \E t \in Threads :
                    /\ Stepping(t)
                    /\ calls'[c].thread_id = t
                    /\ IF c > Len(calls) THEN Top(frames'[t]).call_id = c
                                         ELSE Top(frames[t]).call_id = c
       /\ \A a \in 1..Len(arguments') :
            (a > Len(arguments) \/ arguments'[a] # arguments[a]) =>
                \E t \in Threads :
                    /\ Stepping(t)
                    /\ a > Len(arguments)
                    /\ calls[arguments'[a].call_id].thread_id = t
                    /\ Top(frames[t]).call_id = arguments'[a].call_id]_vars

\* C25, its case: while a Call of thread t was in flight, thread u inserted a
\* Call with an argument and completed it.
C25_Witness_OtherThreadWroteMeanwhile ==
    \E t \in Threads, u \in Threads, c \in 1..Len(calls), a \in 1..Len(arguments) :
        /\ t # u
        /\ Top(frames[t]).pc = "body"
        /\ Top(frames[t]).call_id # NoneId
        /\ Top(frames[t]).call_id < c
        /\ calls[Top(frames[t]).call_id].duration_ms = NoneMs
        /\ calls[c].thread_id = u
        /\ calls[c].duration_ms # NoneMs
        /\ arguments[a].call_id = c

----------------------------------------------------------------------------
\* The Call ids on the call stacks of the threads.
OnStacks == UNION {{stack[t][i] : i \in 1..Len(stack[t])} : t \in Threads}

\* The Call rows nothing was recorded on after their insertion.
RowsStillNull ==
    {c \in 1..Len(calls) :
        /\ calls[c].duration_ms = NoneMs
        /\ calls[c].return_value = None
        /\ calls[c].exception_type = None
        /\ calls[c].exception_message = None
        /\ calls[c].tb = None}

\* The Calls of thread t that are in flight, outermost first: the rows of the
\* wrapper invocations the thread is inside of.
InFlight(t) ==
    LET started == SelectSeq(frames[t], LAMBDA fr : fr.call_id # NoneId)
    IN  [i \in 1..Len(started) |-> started[i].call_id]

\* C26: while every write to the store succeeds, in every reachable state the ids
\* on the threads' call stacks are exactly the ids of the Call rows whose
\* duration_ms, return_value and exception fields are all null, the rows with a
\* null duration are exactly the Calls in flight, and every thread's stack lists
\* its Calls in flight from the outermost to the innermost.
C26_NullRowsAreTheCallsInFlight ==
    /\ OnStacks = RowsStillNull
    /\ {c \in 1..Len(calls) : calls[c].duration_ms = NoneMs}
            = UNION {{InFlight(t)[i] : i \in 1..Len(InFlight(t))} : t \in Threads}
    /\ \A t \in Threads : stack[t] = InFlight(t)

----------------------------------------------------------------------------
\* The ancestors of Call c in the store.
Ancestors(cls, c) == {a \in 1..Len(cls) : IsAncestor(cls, a, c)}

\* C27: in every store the recorder produces, every Argument.call_id and every
\* non-null Call.parent_call_id names an existing Call row, every Call.function_id
\* names an existing Function row, and a parent's id is smaller than its child's,
\* so the parent relation is a forest; dump_llm_text of that store ends and has
\* exactly one block per Call row, at the depth that is the number of the Call's
\* ancestors.
C27_StoreIsAForestRenderedOncePerCall ==
    /\ \A a \in 1..Len(arguments) : arguments[a].call_id \in 1..Len(calls)
    /\ \A c \in 1..Len(calls) :
            /\ calls[c].function_id \in 1..Len(functions)
            /\ calls[c].parent_call_id # NoneId => calls[c].parent_call_id \in 1..(c - 1)
    /\ LET blocks == Blocks(dump_llm_text(functions, calls, arguments, FALSE))
       IN  /\ Len(blocks) = Len(calls)
           /\ \A c \in 1..Len(calls) :
                \E i \in 1..Len(blocks) :
                    /\ blocks[i].value = ToString(c)
                    /\ blocks[i].depth = Cardinality(Ancestors(calls, c))

\* C27, its case: the recorder stored a Call with its argument and a child of it,
\* and the child's block is at depth 1.
C27_Witness_NestedCallRendered ==
    \E c \in 1..Len(calls), a \in 1..Len(arguments) :
        /\ calls[c].parent_call_id # NoneId
        /\ arguments[a].call_id = calls[c].parent_call_id
        /\ Blocks(dump_llm_text(functions, calls, arguments, FALSE))[c].depth = 1

----------------------------------------------------------------------------
\* The running code of thread t handles the error of a callee in this step.
Catches(t) ==
    /\ Len(frames'[t]) = Len(frames[t])
    /\ Top(frames[t]).pc = "body"
    /\ Top(frames[t]).received.tag = "raise"
    /\ Top(frames'[t]).pc = "body"
    /\ Top(frames'[t]).received.tag # "raise"

\* C28: an error is recorded on every wrapped frame it passes through: whenever
\* the body of a wrapped call has raised or passed on an error and the call ends,
\* the Call row has that error's kind and message and the thread's stack is one
\* shorter, so that k nested frames record it k times and the stack shrinks by k;
\* and when a caller catches the error of its child, the stack lists the Calls in
\* flight again, so that the calls the caller makes next have it as parent, and
\* the caller's row, once it returns, has a return value and no exception fields.
C28_ErrorRecordedOnEveryFramePassed ==
    [][\A t \in Threads :
        /\ (Ends(t) /\ InExcept(Top(frames[t]))) =>
                /\ calls'[Top(frames[t]).call_id].exception_type = Top(frames[t]).body.kind
                /\ calls'[Top(frames[t]).call_id].exception_message = Top(frames[t]).body.msg
                /\ Len(stack'[t]) = Len(stack[t]) - 1
        /\ Catches(t) => stack'[t] = InFlight(t)'
        /\ (Ends(t) /\ InElse(Top(frames[t])) /\ Got(t).tag = "return") =>
                /\ calls'[Top(frames[t]).call_id].return_value # None
                /\ calls'[Top(frames[t]).call_id].exception_type = None]_vars

----------------------------------------------------------------------------
\* C29: the kind of a call as the recorder stores it: method_type is "function"
\* when the qualified name of the callable has no dot or the call binds no
\* argument; otherwise "classmethod" when the first bound argument is a class and
\* "instancemethod" for any other first argument; "staticmethod" is never stored,
\* and class_name is non-null exactly when method_type is not "function".
C29_CallKindAsImplemented ==
    [][\A t \in Threads : \A c \in (Len(calls) + 1)..Len(calls') :
        Stepping(t) =>
            LET fr == Top(frames[t])
                row == calls'[c]
            IN  /\ row.method_type =
                      (IF ~HasDot(fr.key) \/ fr.args = <<>> THEN "function"
                       ELSE IF isclass(fr.args[1].value) THEN "classmethod"
                       ELSE "instancemethod")
                /\ row.method_type # "staticmethod"
                /\ (row.class_name # None) <=> (row.method_type # "function")]_vars

\* C29, its case: the static method called without arguments was stored as a
\* function, and the method called with a plain value first as an instancemethod
\* of the value's type.
C29_Witness_PlainFirstArgument ==
    \E c \in 1..Len(calls), d \in 1..Len(calls) :
        /\ functions[calls[c].function_id].key = "Service.version"
        /\ calls[c].method_type = "function"
        /\ functions[calls[d].function_id].key = "Service.process"
        /\ calls[d].method_type = "instancemethod"
        /\ calls[d].class_name = "int"

----------------------------------------------------------------------------
\* C30: the Call of a wrapped coroutine function is completed when the call
\* expression returns the coroutine object, not when the body finishes: when the
\* wrapper returns the coroutine object, the row (is_coroutine true) has its
\* duration and the coroutine object's text as return value and its id is off
\* the stack; and while the body runs and when it ends, by a result or an error,
\* the row is complete and stays as it is, its id is on no stack, and no Call
\* that starts has it as parent.
C30_CoroutineCallEndsBeforeItsBody ==
    [][/\ \A t \in Threads :
            (Ends(t) /\ Got(t) = Returned("Coroutine")) =>
                LET x == Top(frames[t]).call_id
                IN  /\ calls'[x].is_coroutine
                    /\ calls'[x].duration_ms # NoneMs
                    /\ calls'[x].return_value = json_dumps("Coroutine").value
                    /\ x \notin OnStacks'
                    /\ scenario.at # x
       /\ scenario.at # NoneId =>
            LET x == scenario.at
            IN  /\ calls[x].is_coroutine
                /\ calls[x].duration_ms # NoneMs
                /\ calls[x].return_value # None
                /\ x \notin OnStacks
                /\ calls'[x] = calls[x]
                /\ calls'[x].exception_type = None
                /\ \A c \in (Len(calls) + 1)..Len(calls') : calls'[c].parent_call_id # x]_vars

\* C30, its case: the body of the coroutine that Call x created is running, and
\* a wrapped call made inside it is in flight: it is stored as a root.
C30_Witness_CallInsideRunningBody ==
    \E c \in 1..Len(calls) :
        /\ scenario.at # NoneId
        /\ scenario.at < c
        /\ calls[c].thread_id = scenario.thread
        /\ calls[c].duration_ms = NoneMs
        /\ Top(frames[scenario.thread]).call_id = c
        /\ calls[c].parent_call_id = NoneId
====
